---- MODULE Spec2Model ----
(***************************************************************************)
(* A model of the networkbot monitoring engine (utils/monitoring.js and    *)
(* utils/diagnostics.js):                                                  *)
(*   - UniFiMonitor.apiRequest / authenticate, run by concurrent fetches   *)
(*     that share one monitor instance                      (SpecAuth)     *)
(*   - getMonitoringData, the aggregator                    (SpecAgg)      *)
(*   - runPing / runTraceroute / testPort                   (SpecDiag)     *)
(*   - getMonitoringContext: diagnostics and IP lookup      (SpecCtx)      *)
(* Every specification leaves the variables of the other parts at their    *)
(* initial value.                                                          *)
(***************************************************************************)
EXTENDS Integers, Sequences, FiniteSets, TLC

VARIABLES
  mon,        \* the UniFiMonitor instance: cookie, csrfToken, apiPrefix, useSessionAuth
  ctrl,       \* how the controller answers (environment)
  baseUrlKind,\* which path segment the configured baseUrl carries
  rq,         \* per concurrent apiRequest call: position and bookkeeping
  agCfg,      \* monitoring config: per controller disabled / enabled / enabled with a bad baseUrl
  smCfg,      \* monitoring config: the Site Manager (cloud) section
  agUp,       \* what each controller's API yields to each apiRequest (environment)
  agPc,       \* getMonitoringData: position
  agPending,  \* controllers whose task has not settled yet
  agResults,  \* settled per-controller tasks
  agData,     \* the data object getMonitoringData builds and returns
  agOrder,    \* the controllers in the order their tasks settled
  agText,     \* the status text getMonitoringContext renders from the data
  dgHost,     \* the host value the caller hands to the diagnostics functions
  dg,         \* the last diagnostics call: its input, the I/O it did, what it returned
  cxMsg,      \* getMonitoringContext: the query, as its words
  cxHist,     \* the words of the last six conversation messages (recentText)
  cxPc,       \* where the call stands
  cxMon,      \* what getMonitoringData returned to it
  cxRuns,     \* the diagnostics it has run, in order
  cxCtx,      \* the context text it has built, as its sections
  lsKind,     \* which list section
  lsIn,       \* the length of the list upstream
  lsPc,       \* upstream / data / text
  lsData,     \* its length in the monitoring data
  lsOut,      \* the rendered section: item lines and remainder marker
  hmKind,     \* the source: a local controller or the cloud
  hmDevices,  \* the device records its API returned
  hmClients,  \* the client records its API returned
  hmPc,       \* fetched, metrics, rendered
  hmMetrics,  \* what getHealthMetrics returned
  hmText,     \* the list sections of the context
  gsAnswers,  \* what the server answers on each candidate path of getSites
  gsPc,       \* trying, returned
  gsNext,     \* index of the next path to request
  gsLog,      \* the paths requested so far
  gsResult,   \* what getSites returned
  fbUp,       \* what the cloud answers to getDevices and getClients
  fbPc,       \* start, devices, done
  fbDevices,  \* what getDevices returned
  fbClients,  \* what getClients returned
  scJobs,     \* state.jobs, by job id
  scFile,     \* the jobs in schedules.json
  scRuns,     \* the runs of runJob in flight
  scNow,      \* the time, in tick periods
  scStarted,  \* runs the tick loop started, per job
  scFinished, \* runs the tick loop started that completed, per job
  cfFile,     \* config.json: missing, unparsable, or its settings
  cfEnv,      \* the environment variables that are set
  cfDiskOk,   \* whether config.json can be written
  cfCurrent,  \* config.js currentConfig
  cfPc,       \* boot / serving
  cfReq,      \* the last /api/config request handled
  cfResp,     \* its response
  cfStored,   \* the last request put its configuration in place
  cfHook,     \* the last request ran the invalidate-cache hook
  tpHost,     \* testPort: the host argument
  tpPort,     \* the port argument
  tpPromise,  \* the promise testPort returns
  tpPc,       \* idle / called
  tpTimer,    \* the timeout timer: none / armed / cleared / fired
  tpSocket,   \* the socket: none / connecting / destroyed
  tpLog       \* the events delivered so far, in order

authVars == <<mon, ctrl, baseUrlKind, rq>>
aggVars == <<agCfg, smCfg, agUp, agPc, agPending, agResults, agData, agOrder, agText>>

diagVars == <<dgHost, dg>>
ctxVars == <<cxMsg, cxHist, cxPc, cxMon, cxRuns, cxCtx>>
listVars == <<lsKind, lsIn, lsPc, lsData, lsOut>>
metricVars == <<hmKind, hmDevices, hmClients, hmPc, hmMetrics, hmText>>
siteVars == <<gsAnswers, gsPc, gsNext, gsLog, gsResult>>
fallbackVars == <<fbUp, fbPc, fbDevices, fbClients>>
schedVars == <<scJobs, scFile, scRuns, scNow, scStarted, scFinished>>
configVars == <<cfFile, cfEnv, cfDiskOk, cfCurrent, cfPc, cfReq, cfResp, cfStored, cfHook>>
portVars == <<tpHost, tpPort, tpPromise, tpPc, tpTimer, tpSocket, tpLog>>

vars ==
  <<mon, ctrl, baseUrlKind, rq, agCfg, smCfg, agUp, agPc, agPending, agResults, agData,
    agOrder, agText, dgHost, dg, cxMsg, cxHist, cxPc, cxMon, cxRuns, cxCtx,
    lsKind, lsIn, lsPc, lsData, lsOut,
    hmKind, hmDevices, hmClients, hmPc, hmMetrics, hmText,
    gsAnswers, gsPc, gsNext, gsLog, gsResult,
    fbUp, fbPc, fbDevices, fbClients,
    scJobs, scFile, scRuns, scNow, scStarted, scFinished,
    cfFile, cfEnv, cfDiskOk, cfCurrent, cfPc, cfReq, cfResp, cfStored, cfHook,
    tpHost, tpPort, tpPromise, tpPc, tpTimer, tpSocket, tpLog>>

(***************************************************************************)
(* JSON values, as far as apiRequest's unwrap rule looks at them.          *)
(*   k     : the JavaScript kind of the value                              *)
(*   data  : for an object, what its `data` field holds ("absent": none)   *)
(*   elems : for an array, its elements                                    *)
(***************************************************************************)
DataTags == {"null", "primitive", "emptyArray", "array", "object"}

JUndefined == [k |-> "undefined", data |-> "absent", elems |-> <<>>]
JNull      == [k |-> "null",      data |-> "absent", elems |-> <<>>]
JPrimitive == [k |-> "primitive", data |-> "absent", elems |-> <<>>]
JArray(es) == [k |-> "array",     data |-> "absent", elems |-> es]
JObject(d) == [k |-> "object",    data |-> d,        elems |-> <<>>]

ValOfTag(t) ==
  CASE t = "null"       -> JNull
    [] t = "primitive"  -> JPrimitive
    [] t = "emptyArray" -> JArray(<<>>)
    [] t = "array"      -> JArray(<<"item">>)
    [] t = "object"     -> JObject("absent")

\* The response bodies a controller may send (an empty body reads as undefined).
Bodies ==
  {JUndefined, JNull, JPrimitive, JArray(<<>>), JArray(<<"item">>)}
    \cup {JObject(d) : d \in DataTags \cup {"absent"}}

\* data?.data
GetData(B) ==
  IF B.k = "object" /\ B.data # "absent" THEN ValOfTag(B.data) ELSE JUndefined

\* A bug that wraps every object, enveloped or not.
UnwrapNoEnvelope(B) ==
  IF B.k = "array" THEN B
  ELSE IF B.k = "object" THEN JArray(<<"object">>)
  ELSE JArray(<<>>)

\* JavaScript truthiness and typeof x === 'object' (primitives here are truthy ones)
Truthy(B) == B.k \notin {"undefined", "null"}
TypeofObject(B) == B.k \in {"null", "array", "object"}

\* monitoring.js 200-204
Unwrap(B) ==
  IF GetData(B) # JUndefined THEN GetData(B)
  ELSE IF B.k = "array" THEN B
  ELSE IF Truthy(B) /\ TypeofObject(B) THEN JArray(<<"object">>)
  ELSE JArray(<<>>)

(***************************************************************************)
(* The controller.  validateStatus accepts every status below 500, so a     *)
(* GET either yields a response (status, body) or throws.                   *)
(***************************************************************************)
Req == {"getDevices", "getClients"}   \* two fetches sharing one monitor (getHealthMetrics)

MaxLogins == 3    \* cap on the logins one top-level call may send

Statuses == {200, 401, 403, 404}

\* What a GET may yield under each controller behaviour.
GetOutcomes ==
  IF ctrl = "revoked"
    THEN {[t |-> "resp", status |-> s, body |-> JObject("absent"), code |-> "none"] :
            s \in {401, 403}}
    ELSE {[t |-> "resp", status |-> s, body |-> b, code |-> "none"] :
            s \in Statuses, b \in Bodies}
           \cup {[t |-> "throw", status |-> 0, body |-> JUndefined, code |-> "ECONNREFUSED"],
                 [t |-> "throw", status |-> 500, body |-> JUndefined, code |-> "ERR_BAD_RESPONSE"]}

\* What POST /api/auth/login may yield.
LoginOutcomes ==
  IF ctrl = "revoked"
    THEN {[t |-> "resp", status |-> 200, cookie |-> TRUE, csrf |-> TRUE, code |-> "none"]}
    ELSE {[t |-> "resp", status |-> 200, cookie |-> c, csrf |-> x, code |-> "none"] :
            c \in BOOLEAN, x \in BOOLEAN}
           \cup {[t |-> "resp", status |-> st, cookie |-> FALSE, csrf |-> FALSE,
                   code |-> "none"] : st \in {401, 403}}
           \cup {                 [t |-> "throw", status |-> 0, cookie |-> FALSE, csrf |-> FALSE,
                  code |-> "ECONNREFUSED"],
                 [t |-> "throw", status |-> 500, cookie |-> FALSE, csrf |-> FALSE,
                  code |-> "ERR_BAD_RESPONSE"]}

\* Whether a prefix probe (GET <prefix>/api/self) is recognised.
ProbeOutcomes == IF ctrl = "revoked" THEN {FALSE} ELSE BOOLEAN

\* monitoring.js 63-73
DetectApiPrefix ==
  IF baseUrlKind = "unifi-api" THEN "/unifi-api/network" ELSE "/proxy/network"

\* getApiBaseUrl (78-82), called by doRequest when it builds the URL
WithPrefix(m) ==
  [m EXCEPT !.apiPrefix = IF @ = "null" THEN DetectApiPrefix ELSE @]

NewMonitor ==
  [cookie |-> "null", csrfToken |-> "null", apiPrefix |-> "null", useSessionAuth |-> "null"]

\* What the last login POST of a call yielded (none sent yet).
NoLogin == [t |-> "none", status |-> 0, code |-> "none"]

IdleReq ==
  [pc |-> "idle", site |-> "none", logins |-> 0, status |-> 0, body |-> JUndefined,
   result |-> JUndefined, err |-> "none", gotCookie |-> FALSE, staleRead |-> FALSE,
   flips |-> 0, login |-> NoLogin]

AuthInit ==
  /\ mon = NewMonitor
  /\ ctrl \in {"any", "revoked"}
  /\ baseUrlKind \in {"plain", "unifi-api"}
  /\ rq = [r \in Req |-> IdleReq]

AuthIdle ==
  /\ mon = NewMonitor
  /\ ctrl = "any"
  /\ baseUrlKind = "plain"
  /\ rq = [r \in Req |-> IdleReq]

AuthPcs == {"login", "probe1", "probe2"}

\* The call ends: its locals are gone, what it returned or threw stays.
Thrown(q, e) == [q EXCEPT !.pc = "thrown", !.err = e, !.site = "none", !.gotCookie = FALSE]

Finish(q, o) ==
  [q EXCEPT !.pc = "done", !.status = o.status, !.body = o.body,
            !.result = Unwrap(o.body), !.site = "none", !.gotCookie = FALSE]

\* authenticate() is called (line 183, 187 or 196): POST /api/auth/login is sent
BeginLogin(q, site) == [q EXCEPT !.pc = "login", !.site = site, !.logins = @ + 1]

\* doRequest(true), lines 164-174: the URL and the session headers are read now
SendSession(m, q) ==
  [m |-> WithPrefix(m),
   q |-> [q EXCEPT !.pc = "sessGet",
                   !.staleRead = @ \/ (q.gotCookie /\ m.cookie = "null")]]

\* apiRequest is entered (lines 176-189), at the top level or by `return this.apiRequest`
Enter(m, q) ==
  IF m.useSessionAuth # "true"
    THEN [m |-> WithPrefix(m), q |-> [q EXCEPT !.pc = "keyGet"]]
    ELSE IF m.cookie = "null"
      THEN [m |-> m, q |-> BeginLogin(q, "nocookie")]
      ELSE SendSession(m, q)

\* authenticate() returned true: line 122, then the caller goes on
AfterAuth(m, q) ==
  LET m1 == [m EXCEPT !.useSessionAuth = "true"]
  IN IF q.site = "reset" THEN Enter(m1, q) ELSE SendSession(m1, q)

\* The catch block of authenticate (124-132): which error it throws
AuthenticateError(o) ==
  IF o.code = "ECONNREFUSED" THEN "Cannot connect to UniFi controller"
  ELSE IF o.t = "throw" /\ o.status \in {401, 403} THEN "UniFi API key is invalid or expired"
  ELSE "UniFi authentication error"

\* The catch block of apiRequest (205-218) for an error thrown by axios.get
CatchGet(o, m) ==
  IF o.code = "ECONNREFUSED" THEN "Cannot connect to UniFi controller"
  ELSE IF o.status \in {401, 403} THEN "UniFi API key authentication failed"
  ELSE IF o.status = 404 /\ m.apiPrefix # "null" THEN "flip"
  ELSE "rethrown"

\* Lines 205-218 as a whole: what follows an error thrown by axios.get
OnGetThrow(o, m, q) ==
  IF CatchGet(o, m) = "flip"
    THEN Enter([m EXCEPT !.apiPrefix = IF @ = "/proxy/network" THEN "/unifi-api/network"
                                       ELSE "/proxy/network"],
               [q EXCEPT !.flips = @ + 1])
    ELSE [m |-> m, q |-> Thrown(q, CatchGet(o, m))]

\* The bound on logins: a step that would send one more is not taken.
WithinCap(q0, q1) == q1.logins > q0.logins => q0.logins < MaxLogins

Start(r) ==
  /\ rq[r].pc = "idle"
  /\ LET e == Enter(mon, rq[r])
     IN /\ WithinCap(rq[r], e.q)
        /\ mon' = e.m
        /\ rq' = [rq EXCEPT ![r] = e.q]
  /\ UNCHANGED <<ctrl, baseUrlKind, aggVars, diagVars, ctxVars, listVars, metricVars, siteVars, fallbackVars, schedVars, configVars, portVars>>

\* lines 180-185 and 191-204: the answer to the key-only GET
KeyGetResp(r) ==
  /\ rq[r].pc = "keyGet"
  /\ \E o \in GetOutcomes :
       LET q == rq[r]
           e == IF o.t = "throw"
                  THEN OnGetThrow(o, mon, q)
                ELSE IF o.status \in {401, 403}
                  THEN [m |-> [mon EXCEPT !.useSessionAuth = "true"],
                        q |-> BeginLogin(q, "upgrade")]
                ELSE [m |-> mon, q |-> Finish(q, o)]
       IN /\ WithinCap(q, e.q)
          /\ mon' = e.m
          /\ rq' = [rq EXCEPT ![r] = e.q]
  /\ UNCHANGED <<ctrl, baseUrlKind, aggVars, diagVars, ctxVars, listVars, metricVars, siteVars, fallbackVars, schedVars, configVars, portVars>>

\* lines 184/188 and 191-204: the answer to the session GET
SessGetResp(r) ==
  /\ rq[r].pc = "sessGet"
  /\ \E o \in GetOutcomes :
       LET q == rq[r]
           e == IF o.t = "throw"
                  THEN OnGetThrow(o, mon, q)
                ELSE IF o.status \in {401, 403}
                  THEN [m |-> NewMonitor,
                        q |-> BeginLogin([q EXCEPT !.gotCookie = FALSE], "reset")]
                ELSE [m |-> mon, q |-> Finish(q, o)]
       IN /\ WithinCap(q, e.q)
          /\ mon' = e.m
          /\ rq' = [rq EXCEPT ![r] = e.q]
  /\ UNCHANGED <<ctrl, baseUrlKind, aggVars, diagVars, ctxVars, listVars, metricVars, siteVars, fallbackVars, schedVars, configVars, portVars>>

\* authenticate, lines 105-116 and 124-132: the answer to the login POST
LoginResp(r) ==
  /\ rq[r].pc = "login"
  /\ \E o \in LoginOutcomes :
       LET q == [rq[r] EXCEPT !.login = [t |-> o.t, status |-> o.status, code |-> o.code]]
       IN IF o.t = "resp" /\ o.status = 200
            THEN /\ mon' = [mon EXCEPT !.cookie = IF o.cookie THEN "set" ELSE @,
                                       !.csrfToken = IF o.csrf THEN "set" ELSE "null"]
                 /\ rq' = [rq EXCEPT ![r] = [q EXCEPT !.pc = "probe1",
                                                      !.gotCookie = o.cookie]]
            ELSE /\ mon' = mon
                 /\ rq' = [rq EXCEPT ![r] = Thrown(q, AuthenticateError(o))]
  /\ UNCHANGED <<ctrl, baseUrlKind, aggVars, diagVars, ctxVars, listVars, metricVars, siteVars, fallbackVars, schedVars, configVars, portVars>>

\* detectApiPrefixByProbing, first prefix (138-150)
Probe1Resp(r) ==
  /\ rq[r].pc = "probe1"
  /\ \E hit \in ProbeOutcomes :
       IF hit
         THEN LET e == AfterAuth([mon EXCEPT !.apiPrefix = "/unifi-api/network"], rq[r])
              IN /\ WithinCap(rq[r], e.q)
                 /\ mon' = e.m
                 /\ rq' = [rq EXCEPT ![r] = e.q]
         ELSE /\ mon' = mon
              /\ rq' = [rq EXCEPT ![r].pc = "probe2"]
  /\ UNCHANGED <<ctrl, baseUrlKind, aggVars, diagVars, ctxVars, listVars, metricVars, siteVars, fallbackVars, schedVars, configVars, portVars>>

\* detectApiPrefixByProbing, second prefix and the fallback (141-152)
Probe2Resp(r) ==
  /\ rq[r].pc = "probe2"
  /\ \E hit \in ProbeOutcomes :
       LET p == IF hit THEN "/proxy/network" ELSE DetectApiPrefix
           e == AfterAuth([mon EXCEPT !.apiPrefix = p], rq[r])
       IN /\ WithinCap(rq[r], e.q)
          /\ mon' = e.m
          /\ rq' = [rq EXCEPT ![r] = e.q]
  /\ UNCHANGED <<ctrl, baseUrlKind, aggVars, diagVars, ctxVars, listVars, metricVars, siteVars, fallbackVars, schedVars, configVars, portVars>>

NextAuth ==
  \E r \in Req :
    \/ Start(r)
    \/ KeyGetResp(r)
    \/ SessGetResp(r)
    \/ LoginResp(r)
    \/ Probe1Resp(r)
    \/ Probe2Resp(r)


(***************************************************************************)
(* Claims about apiRequest                                                 *)
(***************************************************************************)

\* C1: against a controller that answers every API GET with 401/403 while the
\* login keeps succeeding, one top-level apiRequest call (running alone on its
\* monitor) sends at most two logins.
C1_AtMostTwoReauth ==
  \A r \in Req :
    (ctrl = "revoked" /\ \A o \in Req \ {r} : rq[o].pc = "idle") => rq[r].logins <= 2

\* C2: for every body apiRequest accepts as final, the result is B.data when B
\* has a data field, else B itself when B is an array, else [B] when B is a
\* non-null object, else the empty array.
C2_UnwrapRule ==
  \A r \in Req :
    rq[r].pc = "done" =>
      LET B == rq[r].body
          res == rq[r].result
      IN /\ rq[r].status \notin {401, 403}
         /\ (B.k = "object" /\ B.data # "absent") => res = ValOfTag(B.data)
         /\ B.k = "array" => res = B
         /\ (B.k = "object" /\ B.data = "absent") =>
              (res.k = "array" /\ res.elems = <<"object">>)
         /\ B.k \in {"null", "undefined", "primitive"} =>
              (res.k = "array" /\ res.elems = <<>>)

\* C2 witness: a call has returned each of the four shapes.
C2_Witness ==
  /\ rq["getDevices"].pc = "done" /\ rq["getDevices"].body = JObject("array")
  /\ rq["getDevices"].result = JArray(<<"item">>)
  /\ rq["getClients"].pc = "done" /\ rq["getClients"].body = JObject("absent")
  /\ rq["getClients"].result = JArray(<<"object">>)

\* C6: on one shared monitor at most one authenticate() is in flight at any
\* time, and no request sends its session GET after another request's reset
\* cleared the cookie its own login had stored.
C6_ReauthSerialized ==
  /\ Cardinality({r \in Req : rq[r].pc \in AuthPcs}) <= 1
  /\ \A r \in Req : ~rq[r].staleRead

\* C24: a call of apiRequest that ended on a 404 answer had flipped apiPrefix
\* to the other known prefix and retried exactly once before (the prefix is
\* always set when a GET is sent), and no call flips more than once.
C24_NotFoundFlipsOnce ==
  \A r \in Req :
    /\ rq[r].flips <= 1
    /\ (rq[r].pc = "done" /\ rq[r].status = 404) => rq[r].flips = 1

\* C25: authenticate() fails with the cannot-connect error when the connection
\* is refused, with the invalid-or-expired-key error when the login endpoint
\* answers 401 or 403, and with the generic authentication error otherwise;
\* when it succeeds useSessionAuth is true.
C25_AuthenticateErrors ==
  \A r \in Req :
    LET l == rq[r].login IN
    /\ (rq[r].pc = "thrown" /\ l.t # "none" /\ ~(l.t = "resp" /\ l.status = 200)) =>
         rq[r].err = (IF l.code = "ECONNREFUSED" THEN "Cannot connect to UniFi controller"
                      ELSE IF l.status \in {401, 403} THEN "UniFi API key is invalid or expired"
                      ELSE "UniFi authentication error")
    /\ (rq[r].pc = "sessGet" /\ l.t = "resp" /\ l.status = 200) =>
         mon.useSessionAuth = "true"

(***************************************************************************)
(* getMonitoringData (monitoring.js 905-1010) and the fetchers it calls.   *)
(* A settled promise is [st, v, msg]; lists are sequences; the empty       *)
(* object {} of siteHealth and system is the empty sequence.               *)
(***************************************************************************)
Controllers == <<"c1", "c2">>     \* monitoringConfig.unifi.controllers, in order
CtrlIds == {Controllers[i] : i \in 1..Len(Controllers)}

Device(s) == [mac |-> "aa:bb", state |-> s]
\* is_wired is the boolean true or false, or the number 1
Client(w) == [mac |-> "cc:dd", is_wired |-> w]

DeviceLists == {<<>>, <<Device(1)>>, <<Device(1), Device(0)>>}
ClientLists ==
  {<<>>, <<Client("true")>>, <<Client("true"), Client("false")>>,
   <<Client("false"), Client("1")>>}

\* What an apiRequest call yields: it throws, or it returns a payload.
Fail == [ok |-> FALSE, v |-> <<>>]
Ok(v) == [ok |-> TRUE, v |-> v]

\* The supplementary fetches of lines 924-932, by the field of the result they fill
Supplementary ==
  {"siteEvents", "networks", "wlans", "alarms", "portProfiles", "siteHealth",
   "portForwards", "routes", "intrusionEvents"}

\* The supplementary fetches whose outcome the environment varies
OddCats == {"siteEvents", "alarms", "siteHealth"}

\* A controller is down (every request throws), or it answers, with one
\* supplementary category possibly failing or empty.
Upstreams ==
  {[down |-> TRUE, devices |-> Fail, clients |-> Fail, self |-> Fail,
    oddCat |-> "none", oddKind |-> "fail"]}
  \cup [down : {FALSE},
        devices : {Fail} \cup {Ok(l) : l \in DeviceLists},
        clients : {Fail} \cup {Ok(l) : l \in ClientLists},
        self : {Fail, Ok(<<"system">>)},
        oddCat : {"none"}, oddKind : {"fail"}]
  \cup [down : {FALSE},
        devices : {Fail} \cup {Ok(l) : l \in DeviceLists},
        clients : {Fail} \cup {Ok(l) : l \in ClientLists},
        self : {Fail, Ok(<<"system">>)},
        oddCat : OddCats, oddKind : {"fail", "empty"}]

\* Upstreams that are down, or answer with no supplementary category out of the
\* ordinary: the first controller is one of these, the second is any
PlainUpstreams == {u \in Upstreams : u.down \/ (u.self.ok /\ u.oddCat = "none")}

BaselineUp ==
  [down |-> FALSE, devices |-> Ok(<<>>), clients |-> Ok(<<>>), self |-> Ok(<<"system">>),
   oddCat |-> "none", oddKind |-> "fail"]

\* The outcome of the apiRequest that supplementary fetch `cat` makes on a
\* controller that answers as `up`
SupOutcomeOn(up, cat) ==
  IF up.down THEN Fail
  ELSE IF up.oddCat = cat
    THEN (IF up.oddKind = "fail" THEN Fail ELSE Ok(<<>>))
  ELSE Ok(<<"item">>)

\* The outcome of the apiRequest that supplementary fetch `cat` of controller c makes
SupOutcome(c, cat) == SupOutcomeOn(agUp[c], cat)

Resolved(v) == [st |-> "resolved", v |-> v, msg |-> ""]
Rejected(m) == [st |-> "rejected", v |-> <<>>, msg |-> m]

\* promise.catch(() => dflt)
CatchTo(p, dflt) == IF p.st = "rejected" THEN Resolved(dflt) ELSE p

\* monitoring.js 244-252
GetDevices(o) ==
  IF o.ok THEN Resolved(o.v) ELSE Rejected("Failed to get UniFi devices")

\* monitoring.js 257-265
GetClients(o) ==
  IF o.ok THEN Resolved(o.v) ELSE Rejected("Failed to get UniFi clients")

\* monitoring.js 224-239: both inner requests are caught, so it always resolves
GetSystemInfo(o) ==
  Resolved([system |-> IF o.ok /\ Len(o.v) > 0 THEN <<o.v[1]>> ELSE <<>>])

CountSeq(sq, Test(_)) == Cardinality({i \in 1..Len(sq) : Test(sq[i])})

NoMetrics ==
  [present |-> FALSE,
   devices |-> [total |-> 0, online |-> 0, offline |-> 0],
   clients |-> [total |-> 0, wireless |-> 0, wired |-> 0],
   devicesList |-> <<>>, clientsList |-> <<>>, system |-> <<>>]

MaxList == 250       \* MAX_LIST

\* list.slice(0, n)
Take(sq, n) == SubSeq(sq, 1, IF Len(sq) < n THEN Len(sq) ELSE n)

\* A record of the API carries the fields it carries: r.f is undefined when f
\* is not among them.
Has(r, f) == f \in DOMAIN r

\* String(r.f ?? '').trim() is not empty
NonEmpty(r, f) == Has(r, f) /\ r[f] # ""

\* monitoring.js 449 and 451: a record with an identifying field
IsValidClient(c) == NonEmpty(c, "mac") \/ NonEmpty(c, "ip") \/ NonEmpty(c, "name")
IsValidDevice(d) == NonEmpty(d, "mac")

\* monitoring.js 427-473
GetHealthMetrics(up) ==
  LET devices == CatchTo(GetDevices(up.devices), <<>>).v
      clients == CatchTo(GetClients(up.clients), <<>>).v
      systemInfo == CatchTo(GetSystemInfo(up.self), [system |-> <<>>]).v
      onlineDevices == CountSeq(devices, LAMBDA d : Has(d, "state") /\ d.state = 1)
      activeClients == CountSeq(clients, LAMBDA c : Has(c, "is_wired") /\ c.is_wired = "false")
      wiredClients == CountSeq(clients, LAMBDA c : Has(c, "is_wired") /\ c.is_wired = "true")
  IN Resolved(
       [present |-> TRUE,
        devices |-> [total |-> Len(devices), online |-> onlineDevices,
                     offline |-> Len(devices) - onlineDevices],
        clients |-> [total |-> Len(clients), wireless |-> activeClients,
                     wired |-> wiredClients],
        devicesList |-> Take(SelectSeq(devices, IsValidDevice), MaxList),
        clientsList |-> Take(SelectSeq(clients, IsValidClient), MaxList),
        system |-> systemInfo.system])

\* getSiteEvents, getNetworks, getWlans, getAlarms, getPortProfiles, getSiteHealth,
\* getPortForwards, getRouting, getIntrusionEvents (270-416): each catches the
\* error of its request and returns its empty value.
GetSupplementary(cat, o) ==
  IF o.ok THEN Resolved(o.v) ELSE Resolved(<<>>)

\* The fields of a controller result that the supplementary fetches fill
ResultFields ==
  {"recentConnectionEvents", "eventLog", "networks", "wlans", "alarms", "portProfiles",
   "siteHealth", "portForwards", "routes", "intrusionEvents"}

FetchOf(field) ==
  IF field \in {"recentConnectionEvents", "eventLog"} THEN "siteEvents" ELSE field

\* monitoring.js 950-967
FailureResult(c, msg) ==
  [id |-> c, success |-> FALSE, error |-> msg, metrics |-> NoMetrics,
   cats |-> [f \in ResultFields |-> <<>>]]

\* One controller's task without its try/catch: what it throws rejects the task.
ControllerTaskNoCatch(c) ==
  IF agCfg[c] = "badBaseUrl"
    THEN [rejected |-> TRUE, r |-> FailureResult(c, "TypeError")]
    ELSE [rejected |-> FALSE,
          r |-> [id |-> c, success |-> TRUE, error |-> "",
                 metrics |-> GetHealthMetrics(agUp[c]).v,
                 cats |-> [f \in ResultFields |->
                             GetSupplementary(FetchOf(f), SupOutcome(c, FetchOf(f))).v]]]

\* monitoring.js 919-968: the task of controller c, configured as cfg and
\* answering as up; it never rejects
TaskOn(c, cfg, up) ==
  IF cfg = "badBaseUrl"
    THEN [rejected |-> FALSE,
          r |-> FailureResult(c, "(config.baseUrl || '').replace is not a function")]
    ELSE
      LET metrics == GetHealthMetrics(up)
          sup == [f \in Supplementary |->
                    CatchTo(GetSupplementary(f, SupOutcomeOn(up, f)), <<>>)]
          rejectedOnes == {f \in Supplementary : sup[f].st = "rejected"}
      IN IF metrics.st = "rejected"
           THEN [rejected |-> FALSE, r |-> FailureResult(c, metrics.msg)]
         ELSE IF rejectedOnes # {}
           THEN [rejected |-> FALSE, r |-> FailureResult(c, "Request failed")]
         ELSE [rejected |-> FALSE,
               r |-> [id |-> c, success |-> TRUE, error |-> "",
                      metrics |-> metrics.v,
                      cats |-> [f \in ResultFields |-> sup[FetchOf(f)].v]]]

ControllerTask(c) == TaskOn(c, agCfg[c], agUp[c])

Enabled(c) == agCfg[c] # "disabled"                     \* line 916
EnabledUnifi == SelectSeq(Controllers, Enabled)

RECURSIVE SumSeq(_)
SumSeq(ns) == IF ns = <<>> THEN 0 ELSE Head(ns) + SumSeq(Tail(ns))

\* results.reduce((s, c) => s + (f(c) || 0), 0)
SumOver(sq, F(_)) == SumSeq([i \in 1..Len(sq) |-> F(sq[i])])

NoSummary ==
  [present |-> FALSE,
   controllers |-> [total |-> 0, online |-> 0, offline |-> 0],
   devices |-> [total |-> 0, online |-> 0, offline |-> 0],
   clients |-> [total |-> 0, wireless |-> 0, wired |-> 0]]

\* monitoring.js 971-986
Summarize(results) ==
  LET ok == SelectSeq(results, LAMBDA c : c.success)
      devTotal == SumOver(ok, LAMBDA c : c.metrics.devices.total)
      devOnline == SumOver(ok, LAMBDA c : c.metrics.devices.online)
  IN IF Len(ok) > 0
       THEN [present |-> TRUE,
             controllers |-> [total |-> Len(EnabledUnifi), online |-> Len(ok),
                              offline |-> Len(EnabledUnifi) - Len(ok)],
             devices |-> [total |-> devTotal, online |-> devOnline,
                          offline |-> devTotal - devOnline],
             clients |-> [total |-> SumOver(ok, LAMBDA c : c.metrics.clients.total),
                          wireless |-> SumOver(ok, LAMBDA c : c.metrics.clients.wireless),
                          wired |-> SumOver(ok, LAMBDA c : c.metrics.clients.wired)]]
       ELSE NoSummary

\* monitoring.js 907-912
NewData == [controllers |-> <<>>, summary |-> NoSummary, siteManager |-> "null"]

Unsettled == [rejected |-> FALSE, r |-> FailureResult("none", "")]

AggInit ==
  /\ agCfg \in [CtrlIds -> {"disabled", "enabled", "badBaseUrl"}]
  /\ smCfg \in {"off", "on", "badBaseUrl"}
  /\ agUp \in [CtrlIds -> Upstreams]
  /\ \A c \in CtrlIds : agCfg[c] # "enabled" => agUp[c] = BaselineUp
  /\ agUp[Controllers[1]] \in PlainUpstreams
  /\ agPc = "idle"
  /\ agPending = {}
  /\ agResults = [c \in CtrlIds |-> Unsettled]
  /\ agData = NewData
  /\ agOrder = <<>>
  /\ agText = <<>>

AggIdle ==
  /\ agCfg = [c \in CtrlIds |-> "disabled"]
  /\ smCfg = "off"
  /\ agUp = [c \in CtrlIds |-> BaselineUp]
  /\ agPc = "idle"
  /\ agPending = {}
  /\ agResults = [c \in CtrlIds |-> Unsettled]
  /\ agData = NewData
  /\ agOrder = <<>>
  /\ agText = <<>>

\* The cloud section, lines 990-1003, entered once the controllers are done
CloudOrDone == IF smCfg # "off" THEN "cloud" ELSE "done"

\* lines 905-919: the call starts and fans out to the enabled controllers
AggStart ==
  /\ agPc = "idle"
  /\ agData' = NewData
  /\ IF Len(EnabledUnifi) > 0
       THEN /\ agPc' = "fetching"
            /\ agPending' = {c \in CtrlIds : Enabled(c)}
       ELSE /\ agPc' = CloudOrDone
            /\ agPending' = {}
  /\ agOrder' = <<>>
  /\ UNCHANGED <<agCfg, smCfg, agUp, agResults, agText, authVars, diagVars, ctxVars, listVars, metricVars, siteVars, fallbackVars, schedVars, configVars, portVars>>

\* lines 919-968: the task of controller c settles (in any order)
CtrlSettle(c) ==
  /\ agPc = "fetching"
  /\ c \in agPending
  /\ agResults' = [agResults EXCEPT ![c] = ControllerTask(c)]
  /\ agPending' = agPending \ {c}
  /\ agOrder' = Append(agOrder, c)
  /\ UNCHANGED <<agCfg, smCfg, agUp, agPc, agData, agText, authVars, diagVars, ctxVars, listVars, metricVars, siteVars, fallbackVars, schedVars, configVars, portVars>>

\* Results listed in the order the tasks settled.
JoinResultsAsSettled(settled) == [i \in 1..Len(settled) |-> agResults[settled[i]].r]

\* line 918: Promise.all hands the results back in the order of enabledUnifi,
\* whatever the order the tasks settled in
JoinResults(settled) == [i \in 1..Len(EnabledUnifi) |-> agResults[EnabledUnifi[i]].r]

\* lines 918 and 970-987: Promise.all settles; results keep the order of enabledUnifi
AggJoin ==
  /\ agPc = "fetching"
  /\ agPending = {}
  /\ IF \E c \in CtrlIds : Enabled(c) /\ agResults[c].rejected
       THEN /\ agPc' = "thrown"
            /\ agData' = agData
       ELSE LET results == JoinResults(agOrder)
            IN /\ agData' = [agData EXCEPT !.controllers = results,
                                            !.summary = Summarize(results)]
               /\ agPc' = CloudOrDone
  /\ UNCHANGED <<agCfg, smCfg, agUp, agPending, agResults, agOrder, agText, authVars, diagVars, ctxVars, listVars, metricVars, siteVars, fallbackVars, schedVars, configVars, portVars>>

\* lines 990-1003: getAllCloudData settles, or the constructor threw
CloudSettle ==
  /\ agPc = "cloud"
  /\ agData' = [agData EXCEPT !.siteManager =
                   IF smCfg = "badBaseUrl" THEN "failed" ELSE "success"]
  /\ agPc' = "done"
  /\ UNCHANGED <<agCfg, smCfg, agUp, agPending, agResults, agOrder, agText, authVars, diagVars, ctxVars, listVars, metricVars, siteVars, fallbackVars, schedVars, configVars, portVars>>

(***************************************************************************)
(* getMonitoringContext, lines 1217-1649: the status text rendered from    *)
(* the monitoring data, as its lines.  A line is                           *)
(*   [kind, subject, body, a, b, c, items]                                 *)
(* with the numbers it prints in a, b, c and its item lines in items.      *)
(***************************************************************************)
Line(kind, subject, body, a, b, c, items) ==
  [kind |-> kind, subject |-> subject, body |-> body, a |-> a, b |-> b, c |-> c,
   items |-> items]

Header(kind) == Line(kind, "header", "", 0, 0, 0, <<>>)

Item(id, label) == [id |-> id, label |-> label]

\* monitoring.js 1071-1079: c.mac ?? '—', and wired only for is_wired true or 1
FormatClientForContext(cl) ==
  Item(IF Has(cl, "mac") THEN cl.mac ELSE "-",
       IF Has(cl, "is_wired") /\ cl.is_wired \in {"true", "1"} THEN "wired" ELSE "wireless")

\* The words formatDeviceForContext takes for offline, lower-cased
OfflineWords == {"offline", "disconnected", "0"}

\* lines 1087-1088 and 1117-1118: rawState is the first field present of state,
\* connection_state, status, connection_status, connected, isOnline, and the
\* device is explicitly offline when it is false, 0, '0', 'offline' or
\* 'disconnected'
ExplicitlyOffline(d) ==
  IF Has(d, "state") THEN d.state = 0
  ELSE IF Has(d, "connection_state") THEN d.connection_state \in OfflineWords
  ELSE IF Has(d, "status") THEN d.status \in OfflineWords
  ELSE IF Has(d, "connection_status") THEN d.connection_status \in OfflineWords
  ELSE IF Has(d, "connected") THEN d.connected = FALSE
  ELSE IF Has(d, "isOnline") THEN d.isOnline = FALSE
  ELSE FALSE

\* getAny(d, 'mac', ..., 'serial', ..., 'id', ...): the first that is not empty
DeviceIdOf(d) ==
  IF NonEmpty(d, "mac") THEN d.mac
  ELSE IF NonEmpty(d, "serial") THEN d.serial
  ELSE IF NonEmpty(d, "id") THEN d.id
  ELSE ""

\* monitoring.js 1082-1092
FormatDeviceForContext(d) ==
  Item(IF DeviceIdOf(d) # "" THEN DeviceIdOf(d) ELSE "-",
       IF ExplicitlyOffline(d) THEN "offline" ELSE "online")

\* monitoring.js 1112-1134: the line of a device of any shape, named by its
\* name, its identifier or, with neither, the word 'device'
FormatRawDeviceForContext(d) ==
  Item(IF NonEmpty(d, "name") THEN d.name
       ELSE IF DeviceIdOf(d) # "" THEN DeviceIdOf(d)
       ELSE "device",
       IF ExplicitlyOffline(d) THEN "offline" ELSE "online")

FormatAll(sq, Format(_)) == [i \in 1..Len(sq) |-> Format(sq[i])]

\* the list fields whose section has a sentence for "nothing to list"
WithNoneSentence ==
  {"recentConnectionEvents", "eventLog", "alarms", "portForwards", "routes",
   "intrusionEvents"}

\* One list section of a supplementary field: the controllers that succeeded
\* and have items, each with its items; else, if some controller succeeded
\* and the section has one, the sentence for "nothing to list".
CategorySection(cs, field) ==
  LET with == SelectSeq(cs, LAMBDA r : r.success /\ r.cats[field] # <<>>)
  IN IF with # <<>>
       THEN <<Header(field)>> \o
            [i \in 1..Len(with) |->
               Line(field, with[i].id, "list", Len(with[i].cats[field]), 0, 0,
                    FormatAll(with[i].cats[field], LAMBDA x : Item(x, "")))]
     ELSE IF field \in WithNoneSentence /\ \E i \in 1..Len(cs) : cs[i].success
       THEN <<Line(field, "none", "none (or API not available)", 0, 0, 0, <<>>)>>
     ELSE <<>>

\* lines 1227-1236
ControllerLine(r) ==
  IF r.success /\ r.metrics.present
    THEN Line("controller", r.id, "counts", r.metrics.devices.online,
              r.metrics.devices.total, r.metrics.clients.total,
              <<Item("wireless", ""), Item("wired", "")>>)
    ELSE Line("controller", r.id, "Error", 0, 0, 0, <<Item(r.error, "")>>)

\* lines 1283-1298 and 1575-1581
ClientListLine(r) ==
  Line("clients", r.id, "list", Len(r.metrics.clientsList), r.metrics.clients.total, 0,
       FormatAll(r.metrics.clientsList, FormatClientForContext))

\* lines 1299-1314 and 1582-1588
DeviceListLine(r) ==
  Line("devices", r.id, "list", Len(r.metrics.devicesList), r.metrics.devices.total, 0,
       FormatAll(r.metrics.devicesList, FormatDeviceForContext))

\* lines 1283-1314
MetricsListSection(cs, kind) ==
  LET with == SelectSeq(cs, LAMBDA r :
                 /\ r.success /\ r.metrics.present
                 /\ (IF kind = "clients" THEN r.metrics.clientsList
                                         ELSE r.metrics.devicesList) # <<>>)
  IN IF with = <<>> THEN <<>>
     ELSE <<Header(kind)>> \o
          [i \in 1..Len(with) |->
             IF kind = "clients" THEN ClientListLine(with[i]) ELSE DeviceListLine(with[i])]

\* lines 1316-1405: the model's devices carry no port table and its clients
\* no uplink, so these two sections come to their header
PortsAndUplinkHeaders(cs) ==
  (IF \E i \in 1..Len(cs) : cs[i].success /\ cs[i].metrics.present
     THEN <<Header("devicePorts")>> ELSE <<>>)
  \o
  (IF \E i \in 1..Len(cs) :
        /\ cs[i].success /\ cs[i].metrics.present
        /\ cs[i].metrics.clientsList # <<>> /\ cs[i].metrics.devicesList # <<>>
     THEN <<Header("clientsPerDevice")>> ELSE <<>>)

\* lines 1218-1567
RenderSummaryBranch(data) ==
  LET cs == data.controllers
      sm == data.summary
  IN <<Line("status", "controllers", "", sm.controllers.online, sm.controllers.total, 0, <<>>),
       Line("status", "devices", "", sm.devices.online, sm.devices.total, 0, <<>>),
       Line("status", "clients", "", sm.clients.total, sm.clients.wireless,
            sm.clients.wired, <<>>)>>
     \o (IF Len(cs) >= 1
           THEN <<Header("controller")>> \o [i \in 1..Len(cs) |-> ControllerLine(cs[i])]
           ELSE <<>>)
     \o CategorySection(cs, "recentConnectionEvents")
     \o CategorySection(cs, "eventLog")
     \o MetricsListSection(cs, "clients")
     \o MetricsListSection(cs, "devices")
     \o PortsAndUplinkHeaders(cs)
     \o CategorySection(cs, "networks")
     \o CategorySection(cs, "wlans")
     \o CategorySection(cs, "alarms")
     \o CategorySection(cs, "portProfiles")
     \o CategorySection(cs, "siteHealth")
     \o CategorySection(cs, "portForwards")
     \o CategorySection(cs, "routes")
     \o CategorySection(cs, "intrusionEvents")

\* lines 1568-1590: no summary, the first controller alone
RenderFirstController(data) ==
  LET r == data.controllers[1]
  IN IF r.success /\ r.metrics.present
       THEN <<Line("status", r.id, "", r.metrics.devices.online, r.metrics.devices.total,
                   r.metrics.clients.total, <<>>)>>
            \o (IF r.metrics.clientsList # <<>> THEN <<ClientListLine(r)>> ELSE <<>>)
            \o (IF r.metrics.devicesList # <<>> THEN <<DeviceListLine(r)>> ELSE <<>>)
       ELSE <<>>

\* lines 1592-1647: the cloud section, by its first line
RenderCloud(data) ==
  IF data.siteManager = "success" THEN <<Header("cloud")>> ELSE <<>>

\* lines 1217-1649
RenderStatus(data) ==
  (IF data.summary.present THEN RenderSummaryBranch(data)
   ELSE IF Len(data.controllers) > 0 THEN RenderFirstController(data)
   ELSE <<>>)
  \o RenderCloud(data)

\* getMonitoringContext for a query that asks for no diagnostic and holds no
\* address: the text is the status text of the data just fetched
AggRender ==
  /\ agPc = "done"
  /\ agText' = RenderStatus(agData)
  /\ agPc' = "rendered"
  /\ UNCHANGED <<agCfg, smCfg, agUp, agPending, agResults, agData, agOrder, authVars,
                 diagVars, ctxVars, listVars, metricVars, siteVars, fallbackVars, schedVars, configVars, portVars>>

NextAgg ==
  \/ AggStart
  \/ \E c \in CtrlIds : CtrlSettle(c)
  \/ AggJoin
  \/ CloudSettle
  \/ AggRender

(***************************************************************************)
(* Claims about getMonitoringData                                          *)
(***************************************************************************)
ResultOf(c) ==
  LET i == CHOOSE j \in 1..Len(agData.controllers) : agData.controllers[j].id = c
  IN agData.controllers[i]

HasResult(c) == \E j \in 1..Len(agData.controllers) : agData.controllers[j].id = c

\* C3: a controller that is unreachable (its device-list, client-list and
\* system-info requests all fail) is recorded with success = false and an
\* error message, never as success = true with zero counts.
C3_UnreachableIsFailure ==
  agPc = "done" =>
    \A c \in CtrlIds :
      (agCfg[c] = "enabled" /\ agUp[c].down) =>
        (HasResult(c) /\ ~ResultOf(c).success /\ ResultOf(c).error # "")

\* What controller c's own answers determine for a field of its result
ExpectedField(c, f) ==
  IF SupOutcome(c, FetchOf(f)).ok THEN SupOutcome(c, FetchOf(f)).v ELSE <<>>

C5_SummaryOnlyFromReachable ==
  agPc = "done" =>
    LET ok == SelectSeq(agData.controllers, LAMBDA r : r.success)
        sm == agData.summary
    IN /\ sm.present <=> Len(ok) > 0
       /\ sm.present =>
            /\ sm.devices.total = SumOver(ok, LAMBDA r : r.metrics.devices.total)
            /\ sm.devices.online = SumOver(ok, LAMBDA r : r.metrics.devices.online)
            /\ sm.clients.total = SumOver(ok, LAMBDA r : r.metrics.clients.total)
            /\ sm.clients.wireless = SumOver(ok, LAMBDA r : r.metrics.clients.wireless)
            /\ sm.clients.wired = SumOver(ok, LAMBDA r : r.metrics.clients.wired)
       /\ (\A c \in CtrlIds : Enabled(c) => (agCfg[c] = "badBaseUrl" \/ agUp[c].down))
            => ~sm.present

(***************************************************************************)
(* Claims about the status text                                            *)
(***************************************************************************)
\* getMonitoringData as a function of what the controllers answer: the data it
\* returns for the present configuration when the controllers answer as ups
DataOn(ups) ==
  LET results == [i \in 1..Len(EnabledUnifi) |->
                    TaskOn(EnabledUnifi[i], agCfg[EnabledUnifi[i]], ups[EnabledUnifi[i]]).r]
  IN [controllers |-> results,
      summary |-> IF Len(EnabledUnifi) > 0 THEN Summarize(results) ELSE NoSummary,
      siteManager |-> IF smCfg = "off" THEN "null"
                      ELSE IF smCfg = "badBaseUrl" THEN "failed" ELSE "success"]

\* C12: when every configured monitoring source fails (each enabled controller
\* fails, the cloud source fails or is not configured), the text of
\* getMonitoringContext is not empty and holds a statement that no monitoring
\* data is available.
C12_NoDataStatement ==
  (/\ agPc = "rendered"
   /\ (\E c \in CtrlIds : Enabled(c)) \/ smCfg # "off"
   /\ \A c \in CtrlIds : Enabled(c) => (agCfg[c] = "badBaseUrl" \/ agUp[c].down)
   /\ smCfg \in {"off", "badBaseUrl"})
    => /\ agText # <<>>
       /\ \E i \in 1..Len(agText) : agText[i].kind = "noData"

\* C13: for a controller that succeeded, a supplementary category whose fetch
\* failed and the same category fetched empty give different text: the run
\* in which it failed and the run, otherwise the same, in which it came back
\* empty never render the same text.
C13_FailedAndEmptyDiffer ==
  agPc = "rendered" =>
    \A c \in CtrlIds :
      (/\ agCfg[c] = "enabled" /\ ~agUp[c].down
       /\ agUp[c].oddCat # "none" /\ agUp[c].oddKind = "fail")
        => agText # RenderStatus(DataOn([agUp EXCEPT ![c].oddKind = "empty"]))

ControllerLines(text) == SelectSeq(text, LAMBDA l : l.kind = "controller" /\ l.subject # "header")

\* C14: whatever the order in which the controller tasks settle, the results
\* are listed in configuration order, the per-controller lines of the text
\* follow that order, and the text is the one the configuration and the
\* upstream answers determine.
C14_OrderIndependent ==
  /\ agPc \in {"done", "rendered"} =>
       /\ Len(agData.controllers) = Len(EnabledUnifi)
       /\ \A i \in 1..Len(agData.controllers) : agData.controllers[i].id = EnabledUnifi[i]
       /\ agData = DataOn(agUp)
  /\ agPc = "rendered" =>
       /\ agText = RenderStatus(DataOn(agUp))
       /\ agData.summary.present =>
            /\ Len(ControllerLines(agText)) = Len(EnabledUnifi)
            /\ \A i \in 1..Len(EnabledUnifi) :
                 ControllerLines(agText)[i].subject = EnabledUnifi[i]

\* C14 witness: the second controller settled before the first, both
\* succeeded with different client lists, and the text is rendered.
C14_Witness ==
  /\ agPc = "rendered"
  /\ agOrder = <<"c2", "c1">>
  /\ agData.controllers[1].success /\ agData.controllers[2].success
  /\ agData.controllers[1].metrics.clients.total # agData.controllers[2].metrics.clients.total
  /\ ControllerLines(agText)[1].subject = "c1"

\* C17: for every successful controller clients.total is the number of client
\* records returned, every client is counted as wired or as wireless, so
\* wired + wireless = total (for the summary too), and the label a client is
\* rendered with is the group it was counted in.
C17_ClientCountsAddUp ==
  agPc = "rendered" =>
    /\ \A i \in 1..Len(agData.controllers) :
         LET r == agData.controllers[i]
             up == agUp[r.id]
         IN (r.success /\ up.clients.ok) =>
              /\ r.metrics.clients.total = Len(up.clients.v)
              /\ r.metrics.clients.wired + r.metrics.clients.wireless
                   = r.metrics.clients.total
              /\ \A l \in {agText[j] : j \in 1..Len(agText)} :
                   (l.kind = "clients" /\ l.subject = r.id) =>
                     \A k \in 1..Len(l.items) :
                       /\ l.items[k].label = "wired"
                            <=> r.metrics.clientsList[k].is_wired = "true"
                       /\ l.items[k].label = "wireless"
                            <=> r.metrics.clientsList[k].is_wired = "false"
    /\ agData.summary.present =>
         agData.summary.clients.wired + agData.summary.clients.wireless
           = agData.summary.clients.total

(***************************************************************************)
(* utils/diagnostics.js: sanitizeHost, runPing, runTraceroute, testPort.   *)
(* A string is its characters `body` with `fill` further letters standing  *)
(* after the first character, so that lengths around 253 can be written.   *)
(***************************************************************************)
MaxHostChars == 3        \* characters written out in a host string
MaxHostLength == 253     \* sanitizeHost: s.length > 253
MaxPingCount == 5        \* MAX_PING_COUNT
MaxTracerouteHops == 20  \* MAX_TRACEROUTE_HOPS

Chars == {"a", "7", ".", ";", " "}
HostChars == {"a", "7", "."}          \* of Chars, those in [a-zA-Z0-9.\-_:\[\]]

NotAString == [str |-> FALSE, body |-> <<>>, fill |-> 0]    \* also null
Str(b, f) == [str |-> TRUE, body |-> b, fill |-> f]

Fills == {0, MaxHostLength - 3, MaxHostLength - 2, MaxHostLength - 1}

HostInputs ==
  {NotAString}
    \cup {Str(b, f) : b \in UNION {[1..k -> Chars] : k \in 0..MaxHostChars}, f \in {0}}
    \cup {Str(b, f) : b \in {x \in UNION {[1..k -> Chars] : k \in 1..MaxHostChars} :
                               x[1] # " "},
                      f \in Fills}

StrLen(s) == Len(s.body) + s.fill

RECURSIVE TrimLeft(_)
TrimLeft(b) == IF b # <<>> /\ Head(b) = " " THEN TrimLeft(Tail(b)) ELSE b

RECURSIVE TrimRight(_)
TrimRight(b) ==
  IF b # <<>> /\ b[Len(b)] = " " THEN TrimRight(SubSeq(b, 1, Len(b) - 1)) ELSE b

\* String.prototype.trim
Trim(s) == [s EXCEPT !.body = TrimRight(TrimLeft(@))]

\* A sanitizeHost that forgets the length limit.
SanitizeHostNoLimit(input) ==
  IF ~input.str THEN NotAString
  ELSE LET s == Trim(input)
       IN IF StrLen(s) = 0 THEN NotAString
          ELSE IF \E i \in 1..Len(s.body) : s.body[i] \notin HostChars THEN NotAString
          ELSE s

\* README.md 240-246 (utils/diagnostics.js); null is NotAString
SanitizeHost(input) ==
  IF ~input.str THEN NotAString
  ELSE LET s == Trim(input)
       IN IF StrLen(s) = 0 \/ StrLen(s) > MaxHostLength THEN NotAString
          ELSE IF \E i \in 1..Len(s.body) : s.body[i] \notin HostChars THEN NotAString
          ELSE s

Min(a, b) == IF a < b THEN a ELSE b
Max(a, b) == IF a > b THEN a ELSE b

\* Math.min(Math.max(1, parseInt(n, 10) || dflt), cap)
Clamp(n, dflt, cap) == Min(Max(1, IF n = 0 THEN dflt ELSE n), cap)

NoCall ==
  [fn |-> "none", host |-> NotAString, arg |-> 0, io |-> "none", target |-> NotAString,
   n |-> 0, ok |-> FALSE, error |-> ""]

InvalidHost(fn, host, arg) ==
  [fn |-> fn, host |-> host, arg |-> arg, io |-> "none", target |-> NotAString,
   n |-> 0, ok |-> FALSE, error |-> "Invalid or missing host"]

\* README.md 252-269
RunPing(host, count) ==
  LET target == SanitizeHost(host)
  IN IF target = NotAString
       THEN dg' = InvalidHost("runPing", host, count)
       ELSE \E ok \in BOOLEAN :
              dg' = [fn |-> "runPing", host |-> host, arg |-> count, io |-> "exec",
                     target |-> target, n |-> Clamp(count, 4, MaxPingCount), ok |-> ok,
                     error |-> IF ok THEN "" ELSE "Command failed"]

\* README.md 275-295
RunTraceroute(host, maxHops) ==
  LET target == SanitizeHost(host)
  IN IF target = NotAString
       THEN dg' = InvalidHost("runTraceroute", host, maxHops)
       ELSE \E ok \in BOOLEAN :
              dg' = [fn |-> "runTraceroute", host |-> host, arg |-> maxHops, io |-> "exec",
                     target |-> target, n |-> Clamp(maxHops, 15, MaxTracerouteHops),
                     ok |-> ok, error |-> IF ok THEN "" ELSE "Command failed"]

\* README.md 301-323
TestPort(host, port) ==
  LET target == SanitizeHost(host)
  IN IF target = NotAString
       THEN dg' = InvalidHost("testPort", host, port)
     ELSE IF port < 1 \/ port > 65535
       THEN dg' = [InvalidHost("testPort", host, port) EXCEPT
                     !.error = "Invalid port (use 1-65535)"]
     ELSE \E ev \in {"connect", "error", "timeout"} :
            dg' = [fn |-> "testPort", host |-> host, arg |-> port, io |-> "socket",
                   target |-> target, n |-> port, ok |-> (ev = "connect"),
                   error |-> IF ev = "connect" THEN ""
                             ELSE IF ev = "error" THEN "ECONNREFUSED"
                             ELSE "Connection timed out after 5s"]

DiagInit == dgHost \in HostInputs /\ dg = NoCall
DiagIdle == dgHost = NotAString /\ dg = NoCall

NextDiag ==
  \/ \E count \in {0, 1, 9} :
       RunPing(dgHost, count) /\ UNCHANGED <<dgHost, authVars, aggVars, ctxVars, listVars, metricVars, siteVars, fallbackVars, schedVars, configVars, portVars>>
  \/ \E maxHops \in {0, 1, 30} :
       RunTraceroute(dgHost, maxHops) /\ UNCHANGED <<dgHost, authVars, aggVars, ctxVars, listVars, metricVars, siteVars, fallbackVars, schedVars, configVars, portVars>>
  \/ \E port \in {0, 80, 65535, 65536} :
       TestPort(dgHost, port) /\ UNCHANGED <<dgHost, authVars, aggVars, ctxVars, listVars, metricVars, siteVars, fallbackVars, schedVars, configVars, portVars>>

\* C7: a diagnostics call spawns a subprocess or opens a socket only if the
\* trimmed host is 1 to 253 characters long and made of host characters only;
\* for any other host it returns the invalid-host error record and does no I/O.
C7_NoIoForBadHost ==
  dg.fn # "none" =>
    LET hostOk == /\ dg.host.str
                  /\ StrLen(Trim(dg.host)) >= 1
                  /\ StrLen(Trim(dg.host)) <= 253
                  /\ \A i \in 1..Len(Trim(dg.host).body) :
                       Trim(dg.host).body[i] \in {"a", "7", "."}
    IN /\ dg.io # "none" => (hostOk /\ dg.target = Trim(dg.host))
       /\ ~hostOk => (dg.io = "none" /\ ~dg.ok /\ dg.error = "Invalid or missing host")

\* C7 witness: ping ran for a host of exactly 253 characters once trimmed.
C7_Witness ==
  /\ dg.fn = "runPing" /\ dg.io = "exec"
  /\ StrLen(dg.host) > 253 /\ StrLen(dg.target) = 253

\* C7 witness of the refusal: an over-long and a metacharacter host did no I/O.
C7_WitnessRefused ==
  /\ dg.fn = "testPort" /\ dg.io = "none"
  /\ dg.host.str /\ \E i \in 1..Len(dg.host.body) : dg.host.body[i] = ";"

(***************************************************************************)
(* utils/diagnostics.js: the intent detectors.  A message is the sequence  *)
(* of its words (single-spaced, trimmed); each regular expression is       *)
(* matched word by word, the way it matches on such a text.                *)
(***************************************************************************)
MaxMsgLen == 3        \* words in a query

Vocabulary ==
  {"ping", "traceroute", "to", "port", "on", "test", "it", "80",
   "router.lan", "10.0.0.5", "10.0.0.9"}

Messages == UNION {[1..k -> Vocabulary] : k \in 0..MaxMsgLen}
Histories == {<<>>, <<"router.lan">>}

Ipv4Words == {"10.0.0.5", "10.0.0.9"}     \* words IPV4_REGEX matches
HostnameWords == {"router.lan"}           \* words HOSTNAME_REGEX matches
Pronouns == {"it"}                        \* (it|that|them)

\* the number a leading (\d+) or (\d{1,5}) captures in the word, -1 if the
\* word does not begin with a digit
LeadingDigits(w) ==
  IF w = "80" THEN 80 ELSE IF w \in Ipv4Words THEN 10 ELSE -1

\* the word is 1 to 5 digits and nothing else: \d{1,5} followed by \s+
AllDigits(w) == w = "80"

SetMin(S) == CHOOSE x \in S : \A y \in S : x <= y

NoReq == [some |-> FALSE, host |-> "", n |-> 0]
Found(h, n) == [some |-> TRUE, host |-> h, n |-> n]

\* README.md 365-371: /\bping\s+([a-zA-Z0-9.\-_:\[\]]+)(?:\s+(\d+))?/i
DetectPingRequest(m) ==
  LET at == {i \in 1..(Len(m) - 1) : m[i] = "ping"}
  IN IF at = {} THEN NoReq
     ELSE LET i == SetMin(at)
          IN Found(m[i + 1],
                   IF i + 2 <= Len(m) /\ LeadingDigits(m[i + 2]) >= 0
                     THEN LeadingDigits(m[i + 2]) ELSE 4)

\* README.md 374-378
DetectPingIntentWithoutHost(m) ==
  /\ Len(m) >= 1
  /\ \/ m[Len(m)] = "ping"
     \/ Len(m) >= 2 /\ m[Len(m) - 1] = "ping" /\ m[Len(m)] \in Pronouns

\* README.md 381-387: the optional "to" is taken only when a word follows it
DetectTracerouteRequest(m) ==
  LET at == {i \in 1..(Len(m) - 1) : m[i] = "traceroute"}
  IN IF at = {} THEN NoReq
     ELSE LET i == SetMin(at)
              j == IF m[i + 1] = "to" /\ i + 2 <= Len(m) THEN i + 2 ELSE i + 1
          IN Found(m[j],
                   IF j + 1 <= Len(m) /\ LeadingDigits(m[j + 1]) >= 0
                     THEN LeadingDigits(m[j + 1]) ELSE 15)

\* README.md 390-394
DetectTracerouteIntentWithoutHost(m) ==
  LET n == Len(m)
  IN \/ n >= 2 /\ m[n - 1] = "traceroute" /\ m[n] \in Pronouns
     \/ n >= 3 /\ m[n - 2] = "traceroute" /\ m[n - 1] = "to" /\ m[n] \in Pronouns

\* README.md 331-334: where each of the four expressions first matches, and
\* the port and host words it captures there
PortTestMatch(t, m) ==
  LET at ==
        IF t = 1 THEN {i \in 1..(Len(m) - 4) :
                         /\ m[i] = "test" /\ m[i + 1] = "port" /\ AllDigits(m[i + 2])
                         /\ m[i + 3] \in {"on", "to"}}
        ELSE IF t = 2 THEN {i \in 1..(Len(m) - 2) :
                         m[i + 1] = "port" /\ LeadingDigits(m[i + 2]) >= 0}
        ELSE IF t = 3 THEN {i \in 1..(Len(m) - 3) :
                         m[i] = "port" /\ AllDigits(m[i + 1]) /\ m[i + 2] = "on"}
        ELSE {i \in 1..(Len(m) - 3) :
                         m[i] = "test" /\ m[i + 2] = "port" /\ LeadingDigits(m[i + 3]) >= 0}
  IN IF at = {} THEN NoReq
     ELSE LET i == SetMin(at)
          IN IF t = 1 THEN Found(m[i + 4], LeadingDigits(m[i + 2]))
             ELSE IF t = 2 THEN Found(m[i], LeadingDigits(m[i + 2]))
             ELSE IF t = 3 THEN Found(m[i + 3], LeadingDigits(m[i + 1]))
             ELSE Found(m[i + 1], LeadingDigits(m[i + 3]))

\* README.md 335-344: the first expression whose match holds a port in 1..65535
RECURSIVE PortTestFrom(_, _)
PortTestFrom(t, m) ==
  IF t > 4 THEN NoReq
  ELSE LET r == PortTestMatch(t, m)
       IN IF r.some /\ r.n >= 1 /\ r.n <= 65535 THEN r ELSE PortTestFrom(t + 1, m)

\* README.md 326-345
DetectPortTestRequest(m) == PortTestFrom(1, m)

\* README.md 348-352
DetectPortTestIntentWithoutHost(m) ==
  LET n == Len(m)
  IN \/ /\ n >= 4 /\ m[n - 3] = "test" /\ m[n - 2] = "port"
        /\ AllDigits(m[n - 1]) /\ m[n] \in Pronouns
     \/ /\ n >= 5 /\ m[n - 4] = "test" /\ m[n - 3] = "port" /\ AllDigits(m[n - 2])
        /\ m[n - 1] = "on" /\ m[n] \in Pronouns
     \/ /\ n >= 4 /\ m[n - 3] = "port" /\ AllDigits(m[n - 2])
        /\ m[n - 1] = "on" /\ m[n] \in Pronouns

\* README.md 355-362; 0 stands for null
ExtractPortFromMessage(m) ==
  LET at == {i \in 1..(Len(m) - 1) : m[i] = "port" /\ LeadingDigits(m[i + 1]) >= 0}
  IN IF at = {} THEN 0
     ELSE LET p == LeadingDigits(m[SetMin(at) + 1])
          IN IF p >= 1 /\ p <= 65535 THEN p ELSE 0

LastOf(text, S) ==
  LET at == {i \in 1..Len(text) : text[i] \in S}
  IN text[CHOOSE i \in at : \A j \in at : j <= i]

\* README.md 400-407; "" stands for null
ResolveHostFromConversation(text) ==
  IF text = <<>> THEN ""
  ELSE IF \E i \in 1..Len(text) : text[i] \in Ipv4Words THEN LastOf(text, Ipv4Words)
  ELSE IF \E i \in 1..Len(text) : text[i] \in HostnameWords THEN LastOf(text, HostnameWords)
  ELSE ""

(***************************************************************************)
(* utils/monitoring.js: lookupClientByIp and getMonitoringContext          *)
(* (diagnostics and IP lookup; the status sections follow them).           *)
(***************************************************************************)
\* What an enabled controller is to lookupClientByIp: its constructor throws,
\* its fetches fail, or it lists one client, with this address or another.
LookupCtrlStates == {"throws", "down", "other", "has10.0.0.5"}
LookupEnvs == UNION {[1..k -> LookupCtrlStates] : k \in 0..2}

ClientsOf(st) ==
  IF st = "has10.0.0.5" THEN <<[ip |-> "10.0.0.5", mac |-> "aa", is_wired |-> "true"]>>
  ELSE IF st = "other" THEN <<[ip |-> "10.0.0.7", mac |-> "bb", is_wired |-> "false"]>>
  ELSE <<>>

NotFound(msg) == [found |-> FALSE, error |-> msg, controller |-> 0, mac |-> ""]

\* monitoring.js 1656-1711
LookupClientByIp(env, ip) ==
  IF ip = "" THEN NotFound("No IP provided")
  ELSE IF env = <<>> THEN NotFound("No UniFi Network controllers configured")
  ELSE LET hit == {k \in 1..Len(env) :
                     /\ env[k] # "throws"
                     /\ \E i \in 1..Len(ClientsOf(env[k])) : ClientsOf(env[k])[i].ip = ip}
       IN IF hit = {} THEN NotFound("not found on any UniFi controller")
          ELSE [found |-> TRUE, error |-> "", controller |-> SetMin(hit),
                mac |-> ClientsOf(env[SetMin(hit)])[1].mac]

Section(kind, subject, n, body) ==
  [kind |-> kind, subject |-> subject, n |-> n, body |-> body]

\* A lookup that says nothing when the address is not found.
LookupSectionsSilent(ip, lookup) ==
  IF lookup.found THEN <<Section("lookup", ip, lookup.controller, "found")>> ELSE <<>>

\* monitoring.js 1202-1210
LookupSections(ip, lookup) ==
  IF lookup.found
    THEN <<Section("lookup", ip, lookup.controller, "found")>>
    ELSE <<Section("lookup", ip, 0, lookup.error)>>

\* result.output || result.error || 'No output.', then (Error: ...)
DiagResults == {"output", "error"}

\* monitoring.js 1150-1154
PingReq(m, hist) ==
  IF m # <<>> /\ DetectPingRequest(m).some THEN DetectPingRequest(m)
  ELSE IF m # <<>> /\ DetectPingIntentWithoutHost(m)
            /\ ResolveHostFromConversation(hist \o m) # ""
    THEN Found(ResolveHostFromConversation(hist \o m), 4)
  ELSE NoReq

\* monitoring.js 1151-1159
TraceReq(m, hist) ==
  IF m # <<>> /\ DetectTracerouteRequest(m).some THEN DetectTracerouteRequest(m)
  ELSE IF m # <<>> /\ DetectTracerouteIntentWithoutHost(m)
            /\ ResolveHostFromConversation(hist \o m) # ""
    THEN Found(ResolveHostFromConversation(hist \o m), 15)
  ELSE NoReq

\* monitoring.js 1180-1185
PortReq(m, hist) ==
  IF m # <<>> /\ DetectPortTestRequest(m).some THEN DetectPortTestRequest(m)
  ELSE IF m # <<>> /\ DetectPortTestIntentWithoutHost(m)
            /\ ResolveHostFromConversation(hist \o m) # ""
            /\ ExtractPortFromMessage(m) # 0
    THEN Found(ResolveHostFromConversation(hist \o m), ExtractPortFromMessage(m))
  ELSE NoReq

\* A call that goes back to the ping block after the port test.
NextStageAgain(pc) ==
  IF pc = "ping" THEN "trace"
  ELSE IF pc = "trace" THEN "port"
  ELSE IF pc = "port" THEN "ping"
  ELSE IF pc = "lookup" THEN "status"
  ELSE "done"

\* the blocks of getMonitoringContext, in the order of the code
NextStage(pc) ==
  IF pc = "ping" THEN "trace"
  ELSE IF pc = "trace" THEN "port"
  ELSE IF pc = "port" THEN "lookup"
  ELSE IF pc = "lookup" THEN "status"
  ELSE "done"

CtxInit ==
  /\ cxMsg \in Messages
  /\ cxHist \in Histories
  /\ cxPc = "start"
  /\ cxMon = "pending"
  /\ cxRuns = <<>>
  /\ cxCtx = <<>>

CtxIdle ==
  /\ cxMsg = <<>>
  /\ cxHist = <<>>
  /\ cxPc = "start"
  /\ cxMon = "pending"
  /\ cxRuns = <<>>
  /\ cxCtx = <<>>

\* monitoring.js 1142-1144: await getMonitoringData()
CtxGetData ==
  /\ cxPc = "start"
  /\ cxMon' \in {"summary", "noSummary"}
  /\ cxPc' = "ping"
  /\ UNCHANGED <<cxMsg, cxHist, cxRuns, cxCtx, authVars, aggVars, diagVars, listVars, metricVars, siteVars, fallbackVars, schedVars, configVars, portVars>>

\* one of the three  if (req) { result = await run(...); context += ... }
DiagBlock(kind, req) ==
  /\ cxPc = kind
  /\ IF req.some
       THEN \E res \in DiagResults :
              /\ cxRuns' = Append(cxRuns, [kind |-> kind, host |-> req.host, n |-> req.n])
              /\ cxCtx' = Append(cxCtx, Section(kind, req.host, req.n, res))
       ELSE UNCHANGED <<cxRuns, cxCtx>>
  /\ cxPc' = NextStage(kind)
  /\ UNCHANGED <<cxMsg, cxHist, cxMon, authVars, aggVars, diagVars, listVars, metricVars, siteVars, fallbackVars, schedVars, configVars, portVars>>

\* monitoring.js 1160-1169
CtxPing == DiagBlock("ping", PingReq(cxMsg, cxHist))

\* monitoring.js 1170-1179
CtxTraceroute == DiagBlock("trace", TraceReq(cxMsg, cxHist))

\* monitoring.js 1180-1195
CtxPortTest == DiagBlock("port", PortReq(cxMsg, cxHist))

\* query.match(IPV4_REGEX)[0]: the expression is not global, so the match
\* holds the first address only; "" when there is none
FirstIp(m) ==
  LET at == {i \in 1..Len(m) : m[i] \in Ipv4Words}
  IN IF at = {} THEN "" ELSE m[SetMin(at)]

\* monitoring.js 1197-1215
CtxLookup ==
  /\ cxPc = "lookup"
  /\ IF FirstIp(cxMsg) # ""
       THEN \E env \in LookupEnvs :
              cxCtx' = cxCtx \o LookupSections(FirstIp(cxMsg),
                                               LookupClientByIp(env, FirstIp(cxMsg)))
       ELSE UNCHANGED cxCtx
  /\ cxPc' = NextStage("lookup")
  /\ UNCHANGED <<cxMsg, cxHist, cxMon, cxRuns, authVars, aggVars, diagVars, listVars, metricVars, siteVars, fallbackVars, schedVars, configVars, portVars>>

\* monitoring.js 1217 on: the status sections, from the data fetched first
CtxStatus ==
  /\ cxPc = "status"
  /\ cxCtx' = IF cxMon = "summary"
                THEN Append(cxCtx, Section("status", "unifi", 0, "summary"))
                ELSE cxCtx
  /\ cxPc' = NextStage("status")
  /\ UNCHANGED <<cxMsg, cxHist, cxMon, cxRuns, authVars, aggVars, diagVars, listVars, metricVars, siteVars, fallbackVars, schedVars, configVars, portVars>>

NextCtx ==
  \/ CtxGetData
  \/ CtxPing
  \/ CtxTraceroute
  \/ CtxPortTest
  \/ CtxLookup
  \/ CtxStatus

Kinds(runs) == [i \in 1..Len(runs) |-> runs[i].kind]

\* C8 (as stated): one call of getMonitoringContext runs at most one of the
\* three diagnostics (ping, traceroute, port test).
C8_AtMostOneDiagnostic == Len(cxRuns) <= 1

\* C8 (amended): one call runs each of the three diagnostics at most once, in
\* the order ping, traceroute, port test; any of them may run in the same call,
\* each exactly when its own detector finds a request.
C8_EachDiagnosticAtMostOnce ==
  /\ \A i, j \in 1..Len(cxRuns) : i # j => cxRuns[i].kind # cxRuns[j].kind
  /\ \A i, j \in 1..Len(cxRuns) :
       i < j => <<cxRuns[i].kind, cxRuns[j].kind>> \in
                  {<<"ping", "trace">>, <<"ping", "port">>, <<"trace", "port">>}
  /\ cxPc = "done" =>
       /\ ("ping" \in {cxRuns[i].kind : i \in 1..Len(cxRuns)})
            <=> PingReq(cxMsg, cxHist).some
       /\ ("trace" \in {cxRuns[i].kind : i \in 1..Len(cxRuns)})
            <=> TraceReq(cxMsg, cxHist).some
       /\ ("port" \in {cxRuns[i].kind : i \in 1..Len(cxRuns)})
            <=> PortReq(cxMsg, cxHist).some

\* C8 witness: a finished call that ran a ping and then a port test.
C8_Witness ==
  /\ cxPc = "done"
  /\ Kinds(cxRuns) = <<"ping", "port">>

\* C9: for the message "ping it" with a hostname in the recent conversation,
\* ping runs against that hostname, not the pronoun, and the context holds
\* that ping's output.
C9_PingItUsesConversationHost ==
  (cxPc = "done" /\ cxMsg = <<"ping", "it">> /\ cxHist = <<"router.lan">>) =>
    /\ \E i \in 1..Len(cxRuns) : cxRuns[i].kind = "ping" /\ cxRuns[i].host = "router.lan"
    /\ \A i \in 1..Len(cxRuns) : cxRuns[i].host # "it"
    /\ \E i \in 1..Len(cxCtx) : cxCtx[i].kind = "ping" /\ cxCtx[i].subject = "router.lan"

\* C27: when the host of a ping is resolved from the conversation (the message
\* asks for a ping without naming a host), it is the host-like word, IPv4
\* address or hostname, that stands last in the conversation text; no ping
\* runs when the text has neither.
C27_LastHostLikeWordWins ==
  LET text == cxHist \o cxMsg
      hostLike == Ipv4Words \cup HostnameWords
      viaResolver == /\ cxMsg # <<>>
                     /\ ~DetectPingRequest(cxMsg).some
                     /\ DetectPingIntentWithoutHost(cxMsg)
      pings == {i \in 1..Len(cxRuns) : cxRuns[i].kind = "ping"}
  IN (cxPc \notin {"start", "ping"} /\ viaResolver) =>
       IF \E i \in 1..Len(text) : text[i] \in hostLike
         THEN \E i \in pings : cxRuns[i].host = LastOf(text, hostLike)
         ELSE pings = {}

HasLookupFor(ip) ==
  \E i \in 1..Len(cxCtx) :
    /\ cxCtx[i].kind = "lookup"
    /\ cxCtx[i].subject = ip
    /\ cxCtx[i].body # ""

\* C10 (as stated): the returned text holds, for every IPv4 address in the
\* message, a lookup result or an explicit not-found/error sentence.
C10_EveryAddressAnswered ==
  cxPc = "done" =>
    \A i \in 1..Len(cxMsg) : cxMsg[i] \in Ipv4Words => HasLookupFor(cxMsg[i])

\* C10 (amended): when the message holds IPv4 addresses, the returned text
\* holds a lookup result or an explicit not-found sentence for the first of
\* them, whether or not a controller is configured or reachable, and for no
\* other address.
C10_FirstAddressAnswered ==
  cxPc = "done" =>
    /\ FirstIp(cxMsg) # "" => HasLookupFor(FirstIp(cxMsg))
    /\ \A i \in 1..Len(cxCtx) :
         cxCtx[i].kind = "lookup" => cxCtx[i].subject = FirstIp(cxMsg)

\* C10 witness: two addresses in the message, no controller configured, and
\* the first address answered with the not-found sentence.
C10_Witness ==
  /\ cxPc = "done"
  /\ cxMsg = <<"10.0.0.9", "10.0.0.5">>
  /\ \E i \in 1..Len(cxCtx) :
       /\ cxCtx[i].kind = "lookup" /\ cxCtx[i].subject = "10.0.0.9"
       /\ cxCtx[i].body = "No UniFi Network controllers configured"

(***************************************************************************)
(* The list sections of the context: how many items of a list reach the    *)
(* text.  A list is its length here; the fetch may cut it, the rendering   *)
(* may cut it again, and formatCloudList alone says how many it left out.  *)
(***************************************************************************)
MaxExtra == 1        \* items beyond a cap that the input lengths reach

\* per list section: the cut in the fetch, the cut in the rendering (0: none),
\* and what tells the reader of omitted items
ListCaps ==
  [recentConnections |-> [fetch |-> 100, render |-> 50, marker |-> "none"],
   eventLog          |-> [fetch |-> 80,  render |-> 0,  marker |-> "none"],
   clients           |-> [fetch |-> 250, render |-> 0,  marker |-> "none"],
   devices           |-> [fetch |-> 250, render |-> 0,  marker |-> "none"],
   networks          |-> [fetch |-> 0,   render |-> 0,  marker |-> "none"],
   wlans             |-> [fetch |-> 0,   render |-> 0,  marker |-> "none"],
   alarms            |-> [fetch |-> 30,  render |-> 20, marker |-> "none"],
   portProfiles      |-> [fetch |-> 0,   render |-> 0,  marker |-> "none"],
   portForwards      |-> [fetch |-> 0,   render |-> 0,  marker |-> "none"],
   routes            |-> [fetch |-> 0,   render |-> 100, marker |-> "none"],
   intrusionEvents   |-> [fetch |-> 50,  render |-> 0,  marker |-> "none"],
   sitesList         |-> [fetch |-> 100, render |-> 30, marker |-> "andMore"],
   cloudClients      |-> [fetch |-> 250, render |-> 0,  marker |-> "none"],
   cloudDevices      |-> [fetch |-> 250, render |-> 0,  marker |-> "none"],
   cloudAlerts       |-> [fetch |-> 0,   render |-> 30, marker |-> "andMore"],
   internetHealth    |-> [fetch |-> 0,   render |-> 20, marker |-> "andMore"],
   cloudEvents       |-> [fetch |-> 150, render |-> 40, marker |-> "andMore"],
   cloudNetworks     |-> [fetch |-> 0,   render |-> 30, marker |-> "andMore"],
   cloudWlans        |-> [fetch |-> 0,   render |-> 20, marker |-> "andMore"],
   cloudGateways     |-> [fetch |-> 0,   render |-> 20, marker |-> "andMore"],
   trafficOrInsights |-> [fetch |-> 0,   render |-> 20, marker |-> "andMore"]]

ListSections == DOMAIN ListCaps

ListLengths ==
  {n \in (0..MaxExtra)
            \cup {c + d : c \in {ListCaps[k].fetch : k \in ListSections}
                                \cup {ListCaps[k].render : k \in ListSections},
                          d \in (-1)..MaxExtra} : n >= 0}

\* list.slice(0, cap); cap 0 stands for no slice
Slice(n, cap) == IF cap > 0 /\ n > cap THEN cap ELSE n

NoList == [lines |-> 0, marker |-> "none", more |-> 0]

\* one list section of the text: its item lines and its remainder marker
RenderList(kind, n) ==
  IF n = 0 THEN NoList
  ELSE [lines |-> Slice(n, ListCaps[kind].render),
        marker |-> IF ListCaps[kind].marker = "andMore" /\ n > ListCaps[kind].render
                     THEN "andMore" ELSE "none",
        more |-> IF ListCaps[kind].marker = "andMore" /\ n > ListCaps[kind].render
                   THEN n - ListCaps[kind].render ELSE 0]

ListInit ==
  /\ lsKind \in ListSections
  /\ lsIn \in ListLengths
  /\ lsPc = "upstream"
  /\ lsData = 0
  /\ lsOut = NoList

ListIdle ==
  /\ lsKind = "alarms"
  /\ lsIn = 0
  /\ lsPc = "upstream"
  /\ lsData = 0
  /\ lsOut = NoList

\* the fetch puts the list into the monitoring data
ListFetch ==
  /\ lsPc = "upstream"
  /\ lsData' = Slice(lsIn, ListCaps[lsKind].fetch)
  /\ lsPc' = "data"
  /\ UNCHANGED <<lsKind, lsIn, lsOut, authVars, aggVars, diagVars, ctxVars, metricVars, siteVars, fallbackVars, schedVars, configVars, portVars>>

\* getMonitoringContext renders the section
ListRender ==
  /\ lsPc = "data"
  /\ lsOut' = RenderList(lsKind, lsData)
  /\ lsPc' = "text"
  /\ UNCHANGED <<lsKind, lsIn, lsData, authVars, aggVars, diagVars, ctxVars, metricVars, siteVars, fallbackVars, schedVars, configVars, portVars>>

NextList == ListFetch \/ ListRender

\* C11: every list section has a fixed cap, renders at most that many item
\* lines, and whenever it leaves items of its list out it carries a marker
\* with the number left out.
C11_ListsCappedAndMarked ==
  lsPc = "text" =>
    /\ ListCaps[lsKind].fetch > 0 \/ ListCaps[lsKind].render > 0
    /\ ListCaps[lsKind].render > 0 => lsOut.lines <= ListCaps[lsKind].render
    /\ ListCaps[lsKind].fetch > 0 => lsOut.lines <= ListCaps[lsKind].fetch
    /\ lsOut.lines < lsData => (lsOut.marker = "andMore" /\ lsOut.more = lsData - lsOut.lines)

(***************************************************************************)
(* The health metrics of one source and its client and device lists in the *)
(* context: UniFiMonitor.getHealthMetrics (427-473) for a local            *)
(* controller, UniFiSiteManagerMonitor.getHealthMetrics (835-882) for the  *)
(* cloud, and the list sections of getMonitoringContext.  A record carries *)
(* the fields the API gave it: state is a number, connected and isOnline   *)
(* are booleans, the other status fields are strings.                      *)
(***************************************************************************)
MaxRecs == 2        \* records returned by the API, devices and clients together

With(r, f, v) == [g \in DOMAIN r \cup {f} |-> IF g = f THEN v ELSE r[g]]

\* Devices with a MAC and at most one status field, and devices with no status
\* field identified by a serial, an id, a name, an IP, or by nothing
DeviceRecs ==
  LET d == [mac |-> "aa:bb"]
  IN {d, With(d, "state", 1), With(d, "state", 0),
      With(d, "status", "online"), With(d, "status", "offline"),
      With(d, "connectionState", "connected"), With(d, "connectionState", "disconnected"),
      With(d, "connection_status", "online"), With(d, "connection_status", "offline"),
      With(d, "connection_state", "offline"),
      With(d, "connected", TRUE), With(d, "connected", FALSE),
      With(d, "isOnline", TRUE), With(d, "isOnline", FALSE),
      [serial |-> "S1"], [id |-> "d1"], [name |-> "AP"], [ip |-> "10.0.0.2"],
      [model |-> "U6"]}

ClientRecs ==
  {[mac |-> "cc:dd", is_wired |-> "true"], [ip |-> "10.0.0.9", is_wired |-> "false"],
   [name |-> "laptop"], [is_wired |-> "false"]}

SeqsUpTo(S, n) == UNION {[1..k -> S] : k \in 0..n}

\* (n).toString() of the numbers a state field holds
NumStr(n) == IF n = 1 THEN "1" ELSE IF n = 0 THEN "0" ELSE "other"

\* monitoring.js 825-833
DeviceIsOnline(d) ==
  LET s == IF Has(d, "state") THEN NumStr(d.state)
           ELSE IF Has(d, "connectionState") THEN d.connectionState
           ELSE IF Has(d, "status") THEN d.status
           ELSE IF Has(d, "connection_status") THEN d.connection_status
           ELSE ""
  IN \/ s \in {"connected", "online", "1"}
     \/ Has(d, "connected") /\ d.connected = TRUE
     \/ Has(d, "isOnline") /\ d.isOnline = TRUE
     \/ IF Has(d, "state") THEN d.state = 1 ELSE Has(d, "status") /\ d.status = "1"

\* lines 846-849: d.state ?? d.status ?? d.connectionState ?? d.connected ??
\* d.isOnline is neither undefined nor null nor ''
AnyWithStatus(devices) ==
  \E i \in 1..Len(devices) :
    \/ Has(devices[i], "state")
    \/ NonEmpty(devices[i], "status")
    \/ NonEmpty(devices[i], "connectionState")
    \/ Has(devices[i], "connected")
    \/ Has(devices[i], "isOnline")

\* A filter that keeps every record.
CloudIsValidDeviceAny(d) == TRUE

\* lines 858-863: the cloud's isValidDevice accepts a MAC, a serial, an id or a name
CloudIsValidDevice(d) ==
  NonEmpty(d, "mac") \/ NonEmpty(d, "serial") \/ NonEmpty(d, "id") \/ NonEmpty(d, "name")

\* monitoring.js 835-882, from the lists getDevices and getClients returned
CloudGetHealthMetrics(devices, clients) ==
  LET counted == CountSeq(devices, DeviceIsOnline)
      online == IF Len(devices) > 0 /\ counted = 0 /\ ~AnyWithStatus(devices)
                  THEN Len(devices) ELSE counted
      wirelessClients == CountSeq(clients, LAMBDA c : Has(c, "is_wired") /\ c.is_wired = "false")
  IN [devices |-> [total |-> Len(devices), online |-> online,
                   offline |-> Len(devices) - online],
      devicesList |-> Take(SelectSeq(devices, CloudIsValidDevice), MaxList),
      rawDeviceList |-> Take(devices, MaxList),
      clients |-> [total |-> Len(clients), wireless |-> wirelessClients,
                   wired |-> Len(clients) - wirelessClients],
      clientsList |-> Take(SelectSeq(clients, IsValidClient), MaxList)]

\* lines 1592-1622: the cloud's status line, its client list and its device
\* list, which falls back to the unfiltered list when no device is valid
CloudListSections(m) ==
  <<Line("cloud", "status", "", m.devices.online, m.devices.total, m.clients.total, <<>>)>>
  \o (IF m.clientsList # <<>>
        THEN <<Line("clients", "cloud", "list", Len(m.clientsList), 0, 0,
                    FormatAll(m.clientsList, FormatClientForContext))>>
        ELSE <<>>)
  \o (IF m.devicesList # <<>>
        THEN <<Line("devices", "cloud", "list", Len(m.devicesList), 0, 0,
                    FormatAll(m.devicesList, FormatDeviceForContext))>>
      ELSE IF m.rawDeviceList # <<>>
        THEN <<Line("devices", "cloud", "raw", Len(m.rawDeviceList), 0, 0,
                    FormatAll(m.rawDeviceList, FormatRawDeviceForContext))>>
      ELSE <<>>)

\* lines 1283-1314: the client and device lists of one local controller
LocalListSections(m) ==
  LET r == [id |-> "c1", success |-> TRUE, metrics |-> m]
  IN MetricsListSection(<<r>>, "clients") \o MetricsListSection(<<r>>, "devices")

NoRecords == [devices |-> [total |-> 0, online |-> 0, offline |-> 0]]

MetricsInit ==
  /\ hmKind \in {"local", "cloud"}
  /\ \E d \in SeqsUpTo(DeviceRecs, MaxRecs) :
       \E c \in SeqsUpTo(ClientRecs, MaxRecs - Len(d)) :
         hmDevices = d /\ hmClients = c
  /\ hmPc = "fetched"
  /\ hmMetrics = NoRecords
  /\ hmText = <<>>

MetricsIdle ==
  /\ hmKind = "local" /\ hmDevices = <<>> /\ hmClients = <<>>
  /\ hmPc = "idle" /\ hmMetrics = NoRecords /\ hmText = <<>>

\* getHealthMetrics of the source, on the lists its API returned
HealthMetrics ==
  /\ hmPc = "fetched"
  /\ hmMetrics' =
       IF hmKind = "local"
         THEN GetHealthMetrics([devices |-> Ok(hmDevices), clients |-> Ok(hmClients),
                                self |-> Ok(<<"system">>)]).v
         ELSE CloudGetHealthMetrics(hmDevices, hmClients)
  /\ hmPc' = "metrics"
  /\ UNCHANGED <<hmKind, hmDevices, hmClients, hmText, authVars, aggVars, diagVars,
                 ctxVars, listVars, siteVars, fallbackVars, schedVars, configVars, portVars>>

\* getMonitoringContext writes the list sections of the source
RenderLists ==
  /\ hmPc = "metrics"
  /\ hmText' = IF hmKind = "local" THEN LocalListSections(hmMetrics)
               ELSE CloudListSections(hmMetrics)
  /\ hmPc' = "rendered"
  /\ UNCHANGED <<hmKind, hmDevices, hmClients, hmMetrics, authVars, aggVars, diagVars,
                 ctxVars, listVars, siteVars, fallbackVars, schedVars, configVars, portVars>>

NextMetrics == HealthMetrics \/ RenderLists

\* The records a rendered list line was written from
RenderedFrom(l) ==
  IF l.kind = "clients" THEN hmMetrics.clientsList
  ELSE IF l.body = "raw" THEN hmMetrics.rawDeviceList
  ELSE hmMetrics.devicesList

ListLinesOf(text) == {text[i] : i \in {j \in 1..Len(text) : text[j].body \in {"list", "raw"}}}

StatusFields ==
  {"state", "status", "connectionState", "connection_status", "connection_state",
   "connected", "isOnline"}

\* some status-like field of d says offline
HasOfflineIndicator(d) ==
  \/ Has(d, "state") /\ d.state = 0
  \/ \E f \in {"status", "connectionState", "connection_status", "connection_state"} :
       Has(d, f) /\ d[f] \in {"offline", "disconnected"}
  \/ Has(d, "connected") /\ d.connected = FALSE
  \/ Has(d, "isOnline") /\ d.isOnline = FALSE

\* C15: a device with an explicit offline indicator in a status-like field is
\* not counted online (the online count leaves room for every such device)
\* and its line in the device list says offline, whatever its siblings
\* carry.
C15_OfflineNeverOnline ==
  hmPc = "rendered" =>
    /\ hmMetrics.devices.online
         <= hmMetrics.devices.total - CountSeq(hmDevices, HasOfflineIndicator)
    /\ \A l \in ListLinesOf(hmText) :
         l.kind = "devices" =>
           \A k \in 1..Len(l.items) :
             HasOfflineIndicator(RenderedFrom(l)[k]) => l.items[k].label = "offline"

\* C16: in the cloud's getHealthMetrics, a non-empty device list in which no
\* device carries a status-like field is counted all online, and the count
\* exceeds the number of devices found online one by one only in that case.
C16_AllOnlineOnlyWithoutStatus ==
  (hmKind = "cloud" /\ hmPc \in {"metrics", "rendered"}) =>
    /\ (hmDevices # <<>> /\ \A i \in 1..Len(hmDevices) :
                              \A f \in StatusFields : ~Has(hmDevices[i], f))
         => (hmMetrics.devices.online = hmMetrics.devices.total
               /\ hmMetrics.devices.offline = 0)
    /\ hmMetrics.devices.online > CountSeq(hmDevices, DeviceIsOnline)
         => \A i \in 1..Len(hmDevices) : \A f \in StatusFields : ~Has(hmDevices[i], f)

\* the record has a MAC, an IP or a name, a cloud device also a serial or an id
HasIdentifier(r, cloudDevice) ==
  \/ NonEmpty(r, "mac") \/ NonEmpty(r, "ip") \/ NonEmpty(r, "name")
  \/ cloudDevice /\ (NonEmpty(r, "serial") \/ NonEmpty(r, "id"))

Undefined == [t |-> "undefined"]
Null == [t |-> "null"]
Text == [t |-> "string"]
Arr(v) == [t |-> "array", v |-> v]
Obj(o) == [t |-> "object", o |-> o]

\* x[k]
Prop(x, k) == IF x.t = "object" /\ k \in DOMAIN x.o THEN x.o[k] ELSE Undefined

\* What the server does with one GET: no answer at all (status 0), or a status
\* with a body
NoAnswer == [status |-> 0, data |-> Null]
Status(n) == [status |-> n, data |-> Text]
Ok200(body) == [status |-> 200, data |-> body]

\* monitoring.js 538-552; axios itself throws without an answer and, with
\* validateStatus s < 500, on a 5xx
CloudRequest(o) ==
  IF o.status = 0 \/ o.status >= 500 THEN Rejected("axios")
  ELSE IF o.status = 401 \/ o.status = 403 THEN Rejected("API key invalid or expired")
  ELSE IF o.status = 429 THEN Rejected("rate limit exceeded")
  ELSE IF o.status < 200 \/ o.status >= 300 THEN Rejected("API returned status")
  ELSE Resolved(o.data)

\* line 579: val.data ?? val.sites ?? val.devices ?? ... ?? val.result
NestedKeys == <<"data", "sites", "devices", "hosts", "items", "results", "entries", "result">>

RECURSIVE Coalesce(_, _, _)
Coalesce(x, ks, i) ==
  IF i > Len(ks) THEN Undefined
  ELSE IF Prop(x, ks[i]).t \in {"undefined", "null"} THEN Coalesce(x, ks, i + 1)
  ELSE Prop(x, ks[i])

\* lines 576-584: check(val), null when val holds no array
CheckArray(val) ==
  IF val.t = "array" THEN val
  ELSE IF val.t = "object"
    THEN LET arr == Coalesce(val, NestedKeys, 1)
         IN IF arr.t = "array" THEN arr
            ELSE IF arr.t = "object" /\ Prop(arr, "devices").t = "array"
              THEN Prop(arr, "devices")
            ELSE Null
  ELSE Null

RECURSIVE FirstArray(_, _, _)
FirstArray(data, keys, i) ==
  IF i > Len(keys) THEN <<>>
  ELSE IF CheckArray(Prop(data, keys[i])).t = "array"
    THEN CheckArray(Prop(data, keys[i])).v
  ELSE FirstArray(data, keys, i + 1)

\* The keys tried from the last to the first.
ExtractArrayLastKeyFirst(data, keys) ==
  IF data.t \in {"undefined", "null"} THEN <<>>
  ELSE IF data.t = "array" THEN data.v
  ELSE FirstArray(data, [i \in 1..Len(keys) |-> keys[Len(keys) + 1 - i]], 1)

\* monitoring.js 573-591
ExtractArray(data, keys) ==
  IF data.t \in {"undefined", "null"} THEN <<>>
  ELSE IF data.t = "array" THEN data.v
  ELSE FirstArray(data, keys, 1)

\* line 612
SitePaths ==
  <<"/api/list-sites", "/list-sites", "/api/sites", "/api/v1/sites", "/api/sites/list",
    "/sites", "/v1/sites", "/api/v1/account/sites">>

\* line 616
SiteKeys == <<"data", "sites", "items", "results", "entries">>

SitesA == <<[id |-> "s1"], [id |-> "s2"]>>
SitesB == <<[id |-> "s9"]>>

\* Bodies a 200 may carry
SiteBodies ==
  {Arr(SitesA), Null, Text,
   Obj([sites |-> Arr(SitesA)]),
   Obj([data |-> Arr(SitesA), sites |-> Arr(SitesB)]),
   Obj([data |-> Arr(<<>>), sites |-> Arr(SitesB)]),
   Obj([data |-> Text, sites |-> Arr(SitesB)]),
   Obj([data |-> Obj([sites |-> Arr(SitesA)])]),
   Obj([data |-> Obj([foo |-> Text]), items |-> Arr(SitesA)]),
   Obj([entries |-> Arr(SitesA)]),
   Obj([results |-> Arr(SitesA), entries |-> Arr(SitesB)]),
   Obj([hosts |-> Arr(SitesA)]),
   Obj([foo |-> Text]),
   Obj([data |-> Obj([data |-> Text, sites |-> Arr(SitesA)])]),
   Obj([data |-> Obj([result |-> Obj([devices |-> Arr(SitesA)])])])}

\* Ways a request fails: 404, another non-2xx, auth, rate limit, no answer
Failures == {Status(404), Status(302), Status(500), Status(401), Status(403), Status(429), NoAnswer}

\* The paths before `first` fail, the odd ones as `f`, the even ones with 404;
\* path `first` answers 200 with `body`; the later paths answer as `later`
SiteAnswers(first, f, body, later) ==
  [i \in 1..Len(SitePaths) |->
     IF i < first THEN (IF i % 2 = 1 THEN f ELSE Status(404))
     ELSE IF i = first THEN Ok200(body)
     ELSE later]

SitesInit ==
  /\ \E first \in 1..(Len(SitePaths) + 1), f \in Failures, body \in SiteBodies,
        later \in {Status(404), Ok200(Arr(SitesB))} :
       gsAnswers = SiteAnswers(first, f, body, later)
  /\ gsPc = "trying"
  /\ gsNext = 1
  /\ gsLog = <<>>
  /\ gsResult = <<>>

SitesIdle ==
  /\ gsAnswers = [i \in 1..Len(SitePaths) |-> Status(404)]
  /\ gsPc = "idle" /\ gsNext = 1 /\ gsLog = <<>> /\ gsResult = <<>>

\* lines 613-623: one turn of the loop, the request of the next path; a
\* resolved request returns the extracted list, a rejected one continues
SitesTry ==
  /\ gsPc = "trying"
  /\ gsNext <= Len(SitePaths)
  /\ gsLog' = Append(gsLog, SitePaths[gsNext])
  /\ LET p == CloudRequest(gsAnswers[gsNext])
     IN IF p.st = "resolved"
          THEN /\ gsResult' = ExtractArray(p.v, SiteKeys)
               /\ gsPc' = "returned"
               /\ gsNext' = gsNext
          ELSE /\ gsNext' = gsNext + 1
               /\ UNCHANGED <<gsResult, gsPc>>
  /\ UNCHANGED <<gsAnswers, authVars, aggVars, diagVars, ctxVars, listVars, metricVars, fallbackVars, schedVars, configVars, portVars>>

\* line 625: every path failed
SitesGiveUp ==
  /\ gsPc = "trying"
  /\ gsNext > Len(SitePaths)
  /\ gsResult' = <<>>
  /\ gsPc' = "returned"
  /\ UNCHANGED <<gsAnswers, gsNext, gsLog, authVars, aggVars, diagVars, ctxVars, listVars,
                 metricVars, fallbackVars, schedVars, configVars, portVars>>

NextSites == SitesTry \/ SitesGiveUp

\* the request of path i fails: no answer, or a status outside 200..299
PathFails(i) == gsAnswers[i].status < 200 \/ gsAnswers[i].status >= 300

\* key number k of SiteKeys holds an array in the body and no key before it
\* holds an array or an object
FirstMatchingKey(body, k) ==
  /\ body.t = "object"
  /\ Prop(body, SiteKeys[k]).t = "array"
  /\ \A j \in 1..(k - 1) : Prop(body, SiteKeys[j]).t \notin {"array", "object"}

\* C19: getSites requests its paths in their fixed order, goes on after a path
\* that fails, stops at the first path that answers 2xx, returns the array
\* under the first matching envelope key of that answer, and returns the
\* empty array when every path fails.
C19_FirstSuccessfulPath ==
  /\ Len(gsLog) <= Len(SitePaths)
  /\ \A i \in 1..Len(gsLog) : gsLog[i] = SitePaths[i]
  /\ \A i \in 1..(Len(gsLog) - 1) : PathFails(i)
  /\ gsPc = "returned" =>
       IF \A i \in 1..Len(SitePaths) : PathFails(i)
         THEN Len(gsLog) = Len(SitePaths) /\ gsResult = <<>>
         ELSE /\ ~PathFails(Len(gsLog))
              /\ \A k \in 1..Len(SiteKeys) :
                   FirstMatchingKey(gsAnswers[Len(gsLog)].data, k)
                     => gsResult = Prop(gsAnswers[Len(gsLog)].data, SiteKeys[k]).v

\* C19 witness: the first three paths answer 404, the fourth answers
\* {sites: [...]}, a later path would answer too, and getSites returned the
\* array of the fourth after four requests.
C19_Witness ==
  /\ gsPc = "returned"
  /\ \A i \in 1..3 : gsAnswers[i] = Status(404)
  /\ gsAnswers[4] = Ok200(Obj([sites |-> Arr(SitesA)]))
  /\ gsAnswers[5] = Ok200(Arr(SitesB))
  /\ gsLog = SubSeq(SitePaths, 1, 4)
  /\ gsResult = SitesA

(***************************************************************************)
(* UniFiSiteManagerMonitor.getDevices (628-680) and getClients (686-740):  *)
(* the bulk paths, then the requests per site.                             *)
(***************************************************************************)
MaxSiteRecs == 2         \* records one site returns

MaxDeviceSites == 50     \* siteList.slice(0, 50)
MaxClientSites == 20     \* siteList.slice(0, 20)

\* line 630
DevicePaths ==
  <<"/api/list-devices", "/list-devices", "/api/devices", "/api/v1/devices",
    "/api/devices/list", "/devices", "/v1/devices", "/api/v1/account/devices">>

\* lines 687-698
ClientPaths ==
  <<"/api/list-hosts", "/list-hosts", "/api/list-clients", "/list-clients", "/api/v1/hosts",
    "/api/v1/clients", "/api/hosts", "/api/clients", "/v1/hosts", "/v1/clients">>

\* lines 652-657 and 718-723, the path after /sites/{siteId}
SiteDevicePaths == <<"/api/v1/sites/:id/devices", "/v1/sites/:id/devices",
                     "/api/sites/:id/devices", "/api/sites/:id/list-devices">>
SiteClientPaths == <<"/api/v1/sites/:id/clients", "/v1/sites/:id/clients",
                     "/api/sites/:id/clients", "/api/sites/:id/hosts">>

DeviceKeys == <<"data", "devices", "items", "results", "entries", "result">>
BulkClientKeys == <<"data", "hosts", "clients", "items", "results", "entries">>
SiteClientKeys == <<"data", "clients", "hosts", "items", "results", "entries">>

SiteIds == {"s1", "s2"}
SiteLists == {<<>>, <<[id |-> "s1"]>>, <<[id |-> "s1"], [id |-> "s2"]>>,
              <<[name |-> "main"], [id |-> "s2"]>>}
SiteRecs == {[mac |-> "m1"], [mac |-> "m2"]}
BulkList == <<[mac |-> "m1"], [mac |-> "m9"]>>

\* The cloud as the fallback sees it: what the bulk paths answer (all 404; or
\* the first 404 and the others 200 with an empty list, or with a list), the
\* sites getSites returns, the records of each site, and the first of the
\* four per-site paths that answers (5: none does)
CloudUpstreams ==
  [bulk : {"fail", "empty", "list"}, sites : SiteLists,
   perSite : [SiteIds -> SeqsUpTo(SiteRecs, MaxSiteRecs)],
   okPath : 1..(Len(SiteDevicePaths) + 1)]

BulkAnswer(up, i) ==
  IF up.bulk = "fail" \/ i = 1 THEN Status(404)
  ELSE IF up.bulk = "empty" THEN Ok200(Obj([data |-> Arr(<<>>)]))
  ELSE Ok200(Obj([data |-> Arr(BulkList)]))

SiteAnswer(up, siteId, j) ==
  IF j < up.okPath THEN Status(404) ELSE Ok200(Obj([data |-> Arr(up.perSite[siteId])]))

\* line 663: dev.mac ?? ... ?? dev.serial ?? dev.id ?? ... ?? JSON.stringify(dev)
DeviceKey(d) ==
  IF Has(d, "mac") THEN d.mac
  ELSE IF Has(d, "serial") THEN d.serial
  ELSE IF Has(d, "id") THEN d.id
  ELSE "json"

\* lines 662-668
RECURSIVE PushUnseen(_, _, _)
PushUnseen(list, i, acc) ==
  IF i > Len(list) THEN acc
  ELSE PushUnseen(list, i + 1,
         IF DeviceKey(list[i]) # "" /\ DeviceKey(list[i]) \notin acc.seen
           THEN [seen |-> acc.seen \cup {DeviceKey(list[i])},
                 all |-> Append(acc.all, list[i])]
           ELSE acc)

\* lines 658-673: the paths of one site, until one answers with a list that is
\* not empty
RECURSIVE SiteDevices(_, _, _, _)
SiteDevices(up, siteId, j, acc) ==
  IF j > Len(SiteDevicePaths) THEN acc
  ELSE LET p == CloudRequest(SiteAnswer(up, siteId, j))
       IN IF p.st = "rejected" THEN SiteDevices(up, siteId, j + 1, acc)
          ELSE LET list == ExtractArray(p.v, DeviceKeys)
               IN IF Len(list) > 0 THEN PushUnseen(list, 1, acc)
                  ELSE SiteDevices(up, siteId, j + 1, acc)

\* lines 649-674
RECURSIVE AllSiteDevices(_, _, _, _)
AllSiteDevices(up, sites, i, acc) ==
  IF i > Len(sites) THEN acc
  ELSE IF ~Has(sites[i], "id") THEN AllSiteDevices(up, sites, i + 1, acc)
  ELSE AllSiteDevices(up, sites, i + 1, SiteDevices(up, sites[i].id, 1, acc))

\* lines 631-643: the first bulk path with a list that is not empty
RECURSIVE BulkDevices(_, _)
BulkDevices(up, i) ==
  IF i > Len(DevicePaths) THEN [found |-> FALSE, list |-> <<>>]
  ELSE LET p == CloudRequest(BulkAnswer(up, i))
       IN IF p.st = "resolved" /\ Len(ExtractArray(p.v, DeviceKeys)) > 0
            THEN [found |-> TRUE, list |-> ExtractArray(p.v, DeviceKeys)]
            ELSE BulkDevices(up, i + 1)

\* monitoring.js 628-680: the list returned, and whether the per-site requests
\* were made
CloudGetDevices(up) ==
  IF BulkDevices(up, 1).found
    THEN [list |-> BulkDevices(up, 1).list, perSite |-> FALSE]
    ELSE [list |-> AllSiteDevices(up, Take(up.sites, MaxDeviceSites), 1,
                                  [seen |-> {}, all |-> <<>>]).all,
          perSite |-> TRUE]

\* lines 699-709: the first bulk path that answers with a list that is not
\* empty or with any object
RECURSIVE BulkClients(_, _)
BulkClients(up, i) ==
  IF i > Len(ClientPaths) THEN [found |-> FALSE, list |-> <<>>]
  ELSE LET p == CloudRequest(BulkAnswer(up, i))
       IN IF p.st = "resolved"
               /\ (Len(ExtractArray(p.v, BulkClientKeys)) > 0 \/ p.v.t \in {"object", "array"})
            THEN [found |-> TRUE, list |-> ExtractArray(p.v, BulkClientKeys)]
            ELSE BulkClients(up, i + 1)

\* lines 724-733: the first per-site path that answers ends the site
RECURSIVE SiteClients(_, _, _)
SiteClients(up, siteId, j) ==
  IF j > Len(SiteClientPaths) THEN <<>>
  ELSE LET p == CloudRequest(SiteAnswer(up, siteId, j))
       IN IF p.st = "rejected" THEN SiteClients(up, siteId, j + 1)
          ELSE ExtractArray(p.v, SiteClientKeys)

\* lines 715-734: allClients.push(...list) for every site
RECURSIVE AllSiteClients(_, _, _, _)
AllSiteClients(up, sites, i, all) ==
  IF i > Len(sites) THEN all
  ELSE IF ~Has(sites[i], "id") THEN AllSiteClients(up, sites, i + 1, all)
  ELSE AllSiteClients(up, sites, i + 1, all \o SiteClients(up, sites[i].id, 1))

\* monitoring.js 686-740
CloudGetClients(up) ==
  IF BulkClients(up, 1).found
    THEN [list |-> BulkClients(up, 1).list, perSite |-> FALSE]
    ELSE [list |-> AllSiteClients(up, Take(up.sites, MaxClientSites), 1, <<>>),
          perSite |-> TRUE]

NotFetched == [list |-> <<>>, perSite |-> FALSE]

FallbackInit ==
  /\ fbUp \in CloudUpstreams
  /\ fbPc = "start"
  /\ fbDevices = NotFetched
  /\ fbClients = NotFetched

FallbackIdle ==
  /\ fbUp = [bulk |-> "fail", sites |-> <<>>, perSite |-> [i \in SiteIds |-> <<>>],
             okPath |-> 1]
  /\ fbPc = "idle" /\ fbDevices = NotFetched /\ fbClients = NotFetched

FetchCloudDevices ==
  /\ fbPc = "start"
  /\ fbDevices' = CloudGetDevices(fbUp)
  /\ fbPc' = "devices"
  /\ UNCHANGED <<fbUp, fbClients, authVars, aggVars, diagVars, ctxVars, listVars,
                 metricVars, siteVars, schedVars, configVars, portVars>>

FetchCloudClients ==
  /\ fbPc = "devices"
  /\ fbClients' = CloudGetClients(fbUp)
  /\ fbPc' = "done"
  /\ UNCHANGED <<fbUp, fbDevices, authVars, aggVars, diagVars, ctxVars, listVars,
                 metricVars, siteVars, schedVars, configVars, portVars>>

NextFallback == FetchCloudDevices \/ FetchCloudClients

NoTwoAlike(list) ==
  \A i \in 1..Len(list) : \A j \in (i + 1)..Len(list) :
    DeviceKey(list[i]) # DeviceKey(list[j])

\* C20: when no bulk path yields an array that is not empty, getDevices and
\* getClients both make the per-site requests, and a list that comes from the
\* per-site requests holds no two records with the same identifier.
C20_FallbackDeduplicated ==
  fbPc = "done" =>
    /\ fbUp.bulk \in {"fail", "empty"} => (fbDevices.perSite /\ fbClients.perSite)
    /\ fbDevices.perSite => NoTwoAlike(fbDevices.list)
    /\ fbClients.perSite => NoTwoAlike(fbClients.list)

(***************************************************************************)
(* utils/scheduler.js: the job list in memory (state.jobs) and on disk     *)
(* (schedules.json), the tick loop, runJob and the functions that edit the *)
(* list.  Time is counted in tick periods of DEFAULT_TICK_MS, starting at  *)
(* 1; the time 0 stands for null.  A run of runJob holds a reference to a  *)
(* job object: it is attached while that object is the one in state.jobs.  *)
(* Jobs have notify 'never', so runJob awaits runRequestFn only.           *)
(***************************************************************************)
MaxTime == 3            \* tick periods observed
MaxRuns == 2            \* runs of runJob in flight together

TicksPerMinute == 2     \* 60 s / DEFAULT_TICK_MS

JobIds == {"j1", "j2"}
RunSlots == 1..MaxRuns

\* A place of the list that holds no job (never added, or deleted)
NoJob(how) ==
  [present |-> how, type |-> "none", enabled |-> FALSE, intervalMinutes |-> 0,
   runAt |-> 0, nextRunAt |-> 0, lastRunAt |-> 0, lastStatus |-> "none"]

\* addJob 221-236 for a recurring job of one minute
RecurringJob(next) ==
  [present |-> "yes", type |-> "recurring", enabled |-> TRUE, intervalMinutes |-> 1,
   runAt |-> 0, nextRunAt |-> next, lastRunAt |-> 0, lastStatus |-> "none"]

\* addJob 221-236 for a job that runs once at runAt
OnceJob(runAt) ==
  [present |-> "yes", type |-> "once", enabled |-> TRUE, intervalMinutes |-> 0,
   runAt |-> runAt, nextRunAt |-> runAt, lastRunAt |-> 0, lastStatus |-> "none"]

FreeSlot == [pc |-> "free", job |-> "none", by |-> "none", startedAt |-> 0, attached |-> FALSE]

Listed(jobs, j) == jobs[j].present = "yes"

\* tick 180-185: the job is due at `now`
Due(job, now) ==
  /\ job.present = "yes"
  /\ job.enabled
  /\ IF job.type = "once" THEN job.runAt # 0 /\ job.runAt <= now
     ELSE IF job.type = "recurring" THEN job.nextRunAt = 0 \/ job.nextRunAt <= now
     ELSE FALSE

FreeSlots == {s \in RunSlots : scRuns[s].pc = "free"}

\* loadState 23-37: state.jobs becomes the objects parsed from the file, and
\* every run in flight is left with an object that is no longer in the list
Detached(runs) == [s \in RunSlots |-> [runs[s] EXCEPT !.attached = FALSE]]

SchedInit ==
  /\ scJobs \in {[j1 |-> RecurringJob(n), j2 |-> o] :
                   n \in {0, 2}, o \in {NoJob("never"), OnceJob(2)}}
  /\ scFile = scJobs
  /\ scRuns = [s \in RunSlots |-> FreeSlot]
  /\ scNow = 1
  /\ scStarted = [j \in JobIds |-> 0]
  /\ scFinished = [j \in JobIds |-> 0]

SchedIdle ==
  /\ scJobs = [j \in JobIds |-> NoJob("never")]
  /\ scFile = scJobs
  /\ scRuns = [s \in RunSlots |-> FreeSlot]
  /\ scNow = 0
  /\ scStarted = [j \in JobIds |-> 0]
  /\ scFinished = [j \in JobIds |-> 0]

\* The slots the runs of the jobs in `due` take, one each
RECURSIVE StartRuns(_, _, _)
StartRuns(runs, due, now) ==
  IF due = {} THEN runs
  ELSE LET j == CHOOSE x \in due : TRUE
           s == CHOOSE x \in RunSlots : runs[x].pc = "free"
       IN StartRuns([runs EXCEPT ![s] = [pc |-> "awaiting", job |-> j, by |-> "tick",
                                        startedAt |-> now, attached |-> TRUE]],
                    due \ {j}, now)

\* tick 175-192, a tick period after the last: heartbeat, saveState, and a
\* runJob started for every due job, each up to its await of runRequestFn
Tick ==
  /\ scNow >= 1 /\ scNow < MaxTime
  /\ LET now == scNow + 1
         due == {j \in JobIds : Due(scJobs[j], now)}
     IN /\ Cardinality(due) <= Cardinality(FreeSlots)
        /\ scNow' = now
        /\ scFile' = scJobs
        /\ scRuns' = StartRuns(scRuns, due, now)
        /\ scStarted' = [j \in JobIds |-> IF j \in due THEN scStarted[j] + 1 ELSE scStarted[j]]
  /\ UNCHANGED <<scJobs, scFinished, authVars, aggVars, diagVars, ctxVars, listVars,
                 metricVars, siteVars, fallbackVars, configVars, portVars>>

\* runJob 98-100 and 131-137 on the job object
AfterSuccess(job, startedAt, now) ==
  LET ran == [job EXCEPT !.lastRunAt = startedAt, !.lastStatus = "ok"]
  IN IF ran.type = "recurring" /\ ran.intervalMinutes > 0
       THEN [ran EXCEPT !.nextRunAt = now + ran.intervalMinutes * TicksPerMinute]
     ELSE IF ran.type = "once"
       THEN [ran EXCEPT !.enabled = FALSE, !.nextRunAt = 0]
     ELSE ran

\* runJob 141-143 on the job object
AfterFailure(job, startedAt) ==
  [job EXCEPT !.lastRunAt = startedAt, !.lastStatus = "error"]

\* The rest of a run: it writes its job object, which is in state.jobs only
\* while the run is attached, and saveState writes state.jobs to the file
Complete(s, after) ==
  /\ scRuns[s].pc = "awaiting"
  /\ LET j == scRuns[s].job
         jobs == IF scRuns[s].attached THEN [scJobs EXCEPT ![j] = after] ELSE scJobs
     IN /\ scJobs' = jobs
        /\ scFile' = jobs
        /\ scFinished' = IF scRuns[s].by = "tick" THEN [scFinished EXCEPT ![j] = @ + 1]
                          ELSE scFinished
  /\ scRuns' = [scRuns EXCEPT ![s] = FreeSlot]
  /\ UNCHANGED <<scNow, scStarted, authVars, aggVars, diagVars, ctxVars, listVars,
                 metricVars, siteVars, fallbackVars, configVars, portVars>>

\* runJob 97-139: runRequestFn resolved
RunSucceeds(s) ==
  Complete(s, AfterSuccess(scJobs[scRuns[s].job], scRuns[s].startedAt, scNow))

\* runJob 140-163: runRequestFn rejected
RunFails(s) ==
  Complete(s, AfterFailure(scJobs[scRuns[s].job], scRuns[s].startedAt))

\* runJobNow 273-278 up to the await inside runJob
RunJobNow(j) ==
  /\ scNow >= 1
  /\ Listed(scJobs, j)
  /\ \E s \in FreeSlots :
       scRuns' = [scRuns EXCEPT ![s] = [pc |-> "awaiting", job |-> j, by |-> "manual",
                                        startedAt |-> scNow, attached |-> TRUE]]
  /\ UNCHANGED <<scJobs, scFile, scNow, scStarted, scFinished, authVars, aggVars, diagVars,
                 ctxVars, listVars, metricVars, siteVars, fallbackVars, configVars, portVars>>

\* getSchedules 204-207
GetSchedules ==
  /\ scNow >= 1
  /\ scJobs' = scFile
  /\ scRuns' = Detached(scRuns)
  /\ UNCHANGED <<scFile, scNow, scStarted, scFinished, authVars, aggVars, diagVars, ctxVars,
                 listVars, metricVars, siteVars, fallbackVars, configVars, portVars>>

\* addJob 213-240, for a job that runs once a tick period from now
AddJob(j) ==
  /\ scNow >= 1 /\ scNow < MaxTime
  /\ scFile[j].present = "never"
  /\ scJobs' = [scFile EXCEPT ![j] = OnceJob(scNow + 1)]
  /\ scFile' = scJobs'
  /\ scRuns' = Detached(scRuns)
  /\ UNCHANGED <<scNow, scStarted, scFinished, authVars, aggVars, diagVars, ctxVars,
                 listVars, metricVars, siteVars, fallbackVars, configVars, portVars>>

\* updateJob 242-259 with updates {enabled}: the user switches a recurring job
\* off or on
UpdateJob(j, enabled) ==
  /\ scNow >= 1
  /\ Listed(scFile, j) /\ scFile[j].type = "recurring"
  /\ LET merged == [scFile[j] EXCEPT !.enabled = enabled]
         next == IF merged.intervalMinutes # 0 /\ merged.nextRunAt = 0
                   THEN [merged EXCEPT !.nextRunAt = scNow + merged.intervalMinutes * TicksPerMinute]
                   ELSE merged
     IN scJobs' = [scFile EXCEPT ![j] = next]
  /\ scFile' = scJobs'
  /\ scRuns' = Detached(scRuns)
  /\ UNCHANGED <<scNow, scStarted, scFinished, authVars, aggVars, diagVars, ctxVars,
                 listVars, metricVars, siteVars, fallbackVars, configVars, portVars>>

\* deleteJob 261-268
DeleteJob(j) ==
  /\ scNow >= 1
  /\ Listed(scFile, j)
  /\ scJobs' = [scFile EXCEPT ![j] = NoJob("deleted")]
  /\ scFile' = scJobs'
  /\ scRuns' = Detached(scRuns)
  /\ UNCHANGED <<scNow, scStarted, scFinished, authVars, aggVars, diagVars, ctxVars,
                 listVars, metricVars, siteVars, fallbackVars, configVars, portVars>>

NextSched ==
  \/ Tick
  \/ \E s \in RunSlots : RunSucceeds(s)
  \/ \E s \in RunSlots : RunFails(s)
  \/ \E j \in JobIds : RunJobNow(j)
  \/ GetSchedules
  \/ \E j \in JobIds : AddJob(j)
  \/ \E j \in JobIds, e \in BOOLEAN : UpdateJob(j, e)
  \/ \E j \in JobIds : DeleteJob(j)

\* run slot s completes in this step
Finishes(s) == scRuns[s].pc = "awaiting" /\ scRuns'[s].pc = "free"

\* C23: when a run started by runJobNow completes on a recurring job that is
\* in the list, the job's nextRunAt is what it was before the completion.
C23_ManualRunKeepsNextRunAt ==
  [][\A s \in RunSlots :
       (/\ Finishes(s) /\ scRuns[s].by = "manual"
        /\ Listed(scJobs, scRuns[s].job) /\ scJobs[scRuns[s].job].type = "recurring")
         => scJobs'[scRuns[s].job].nextRunAt = scJobs[scRuns[s].job].nextRunAt]_vars

\* C28: for every job at most one run started by the tick loop is in flight.
C28_OneTickRunPerJob ==
  \A j \in JobIds :
    Cardinality({s \in RunSlots : /\ scRuns[s].pc = "awaiting" /\ scRuns[s].by = "tick"
                                  /\ scRuns[s].job = j}) <= 1

\* C29: the tick loop starts a job of type once at most once, and once a run
\* of it has finished the job is disabled with nextRunAt cleared.
C29_OnceJobRunsOnce ==
  \A j \in JobIds :
    (Listed(scJobs, j) /\ scJobs[j].type = "once") =>
      /\ scStarted[j] <= 1
      /\ scFinished[j] >= 1 => (~scJobs[j].enabled /\ scJobs[j].nextRunAt = 0)

\* C30: when a run completes and its job is in the list, the list in memory
\* and the file hold the run's lastRunAt, its result and, after a success,
\* the job's next state; when the job was deleted, the completion does not
\* put it back.
C30_BookkeepingKept ==
  [][\A s \in RunSlots :
       Finishes(s) =>
         LET j == scRuns[s].job
         IN IF Listed(scJobs, j)
              THEN /\ Listed(scJobs', j)
                   /\ scJobs'[j].lastRunAt = scRuns[s].startedAt
                   /\ scJobs'[j].lastStatus \in {"ok", "error"}
                   /\ scJobs'[j].lastStatus = "ok" =>
                        scJobs'[j] = AfterSuccess(scJobs[j], scRuns[s].startedAt, scNow)
                   /\ scFile'[j] = scJobs'[j]
              ELSE ~Listed(scJobs', j) /\ ~Listed(scFile', j)]_vars

(***************************************************************************)
(* Configuration: utils/config.js and the /api/config handlers             *)
(***************************************************************************)

\* The settings followed here.  "monitoring" stands for the whole monitoring
\* section; the other four are the ones an environment variable can carry
\* (PORT, LLM_PROVIDER, OPENAI_API_KEY, WEB_AUTH_PASSWORD).
ConfigKeys == {"port", "llmProvider", "openaiKey", "webPassword", "monitoring"}

EnvKeys == {"port", "llmProvider", "openaiKey", "webPassword"}

\* A key that is missing from an object (or an unset environment variable).
Absent == ""

\* DEFAULT_CONFIG: the OpenAI key and the web password default to ''.
DEFAULT_CONFIG ==
  [k \in ConfigKeys |-> IF k \in {"openaiKey", "webPassword"} THEN Absent ELSE "default"]

\* mergeConfig(defaultConfig, userConfig): the user's keys win, recursively.
MergeConfig(defaultConfig, userConfig) ==
  [k \in ConfigKeys |-> IF userConfig[k] # Absent THEN userConfig[k] ELSE defaultConfig[k]]

\* loadFromEnv(): one entry per environment variable that is set.
LoadFromEnv(env) == [k \in ConfigKeys |-> IF k \in EnvKeys THEN env[k] ELSE Absent]

\* loadConfig(): config.json when it exists and parses, the environment only
\* otherwise (file missing, or the catch after a parse error).
LoadConfig(file, env) ==
  IF file.kind = "valid"
    THEN MergeConfig(DEFAULT_CONFIG, file.values)
    ELSE MergeConfig(DEFAULT_CONFIG, LoadFromEnv(env))

\* What require('./utils/monitoring') exports.
MonitoringExports ==
  {"getMonitoringData", "getMonitoringContext", "lookupClientByIp",
   "testUniFiConnection", "testUniFiSiteManagerConnection",
   "requestSiteManagerPath", "UniFiMonitor", "UniFiSiteManagerMonitor",
   "PrometheusMonitor"}

\* Calling a destructured import: a name the module does not export is
\* undefined, and calling undefined throws a TypeError.
CallImported(name) == IF name \in MonitoringExports THEN "returned" ELSE "TypeError"

\* The body of a PUT /api/config request, by the sections it carries.
UpdateSections == {{"monitoring"}, {"llm"}, {"llm", "monitoring"}}

Updates(sections) ==
  [k \in ConfigKeys |->
     IF k = "monitoring" /\ "monitoring" \in sections THEN "put"
     ELSE IF k \in {"llmProvider", "openaiKey"} /\ "llm" \in sections THEN "put"
     ELSE Absent]

\* The safeConfig copy sent back: the listed secrets are masked when set.
SafeConfig(config, secrets) ==
  [k \in ConfigKeys |->
     IF k \in secrets /\ config[k] # Absent THEN "***hidden***" ELSE config[k]]

NoConfigRequest == [op |-> "none", sections |-> {}]
NoConfigResponse == [status |-> 0, body |-> DEFAULT_CONFIG, error |-> ""]

ConfigFiles ==
  {[kind |-> "absent", values |-> [k \in ConfigKeys |-> Absent]],
   [kind |-> "corrupt", values |-> [k \in ConfigKeys |-> Absent]]}
  \cup {[kind |-> "valid", values |-> v] : v \in [ConfigKeys -> {Absent, "file"}]}

ConfigInit ==
  /\ cfFile \in ConfigFiles
  /\ cfEnv \in [EnvKeys -> {Absent, "env"}]
  /\ cfDiskOk \in BOOLEAN
  /\ cfCurrent = DEFAULT_CONFIG
  /\ cfPc = "boot"
  /\ cfReq = NoConfigRequest
  /\ cfResp = NoConfigResponse
  /\ cfStored = FALSE
  /\ cfHook = FALSE

ConfigIdle ==
  /\ cfFile = [kind |-> "absent", values |-> [k \in ConfigKeys |-> Absent]]
  /\ cfEnv = [k \in EnvKeys |-> Absent]
  /\ cfDiskOk = TRUE
  /\ cfCurrent = DEFAULT_CONFIG
  /\ cfPc = "idle"
  /\ cfReq = NoConfigRequest
  /\ cfResp = NoConfigResponse
  /\ cfStored = FALSE
  /\ cfHook = FALSE

\* Module load: let currentConfig = loadConfig().
ConfigBoot ==
  /\ cfPc = "boot"
  /\ cfCurrent' = LoadConfig(cfFile, cfEnv)
  /\ cfPc' = "serving"
  /\ UNCHANGED <<cfFile, cfEnv, cfDiskOk, cfReq, cfResp, cfStored, cfHook>>
  /\ UNCHANGED <<authVars, aggVars, diagVars, ctxVars, listVars, metricVars, siteVars, fallbackVars, schedVars, portVars>>

\* updateConfig(updates): merge into currentConfig, then saveConfig, which
\* throws when the file cannot be written.
UpdateConfig(updates) ==
  LET merged == MergeConfig(cfCurrent, updates) IN
  /\ cfCurrent' = merged
  /\ cfFile' = IF cfDiskOk THEN [kind |-> "valid", values |-> merged] ELSE cfFile
  /\ cfStored' = cfDiskOk

\* The rest of a handler's try block once the configuration is in place: the
\* call of invalidateMonitoringCache when it is due, then the response; any
\* throw lands in the catch, which answers 500 with the error.
Respond(op, sections, thrown, invalidate, secrets) ==
  LET call == IF invalidate THEN CallImported("invalidateMonitoringCache") ELSE "skipped" IN
  /\ cfReq' = [op |-> op, sections |-> sections]
  /\ cfHook' = (~thrown /\ call = "returned")
  /\ cfResp' =
       IF thrown THEN [status |-> 500, body |-> DEFAULT_CONFIG, error |-> "save failed"]
       ELSE IF call = "TypeError"
         THEN [status |-> 500, body |-> DEFAULT_CONFIG,
               error |-> "invalidateMonitoringCache is not a function"]
       ELSE [status |-> 200, body |-> SafeConfig(cfCurrent', secrets), error |-> ""]

\* PUT /api/config.
PutConfig(sections) ==
  /\ cfPc = "serving"
  /\ UpdateConfig(Updates(sections))
  /\ Respond("put", sections, ~cfDiskOk, "monitoring" \in sections,
             {"webPassword", "openaiKey"})
  /\ UNCHANGED <<cfEnv, cfDiskOk, cfPc>>
  /\ UNCHANGED <<authVars, aggVars, diagVars, ctxVars, listVars, metricVars, siteVars, fallbackVars, schedVars, portVars>>

\* POST /api/config/reload: reloadConfig(), initializeOpenAI(),
\* invalidateMonitoringCache(), then the response.
PostReload ==
  /\ cfPc = "serving"
  /\ cfCurrent' = LoadConfig(cfFile, cfEnv)
  /\ cfStored' = TRUE
  /\ Respond("reload", {}, FALSE, TRUE, {"webPassword"})
  /\ UNCHANGED <<cfFile, cfEnv, cfDiskOk, cfPc>>
  /\ UNCHANGED <<authVars, aggVars, diagVars, ctxVars, listVars, metricVars, siteVars, fallbackVars, schedVars, portVars>>

NextConfig ==
  \/ ConfigBoot
  \/ \E sections \in UpdateSections : PutConfig(sections)
  \/ PostReload

\* A request that changes the configuration in a way that affects monitoring.
AffectsMonitoring(req) ==
  \/ req.op = "reload"
  \/ req.op = "put" /\ "monitoring" \in req.sections

\* C21: once a monitoring-affecting change (PUT /api/config with a monitoring
\* section, or POST /api/config/reload) has put the new configuration in
\* place, the invalidate-cache hook has been invoked and the request is
\* answered 200 with the updated configuration, never with an error.
C21_ChangeInvalidatesAndSucceeds ==
  (AffectsMonitoring(cfReq) /\ cfStored) =>
    /\ cfHook
    /\ cfResp.status = 200
    /\ cfResp.body \in {SafeConfig(cfCurrent, {"webPassword", "openaiKey"}),
                        SafeConfig(cfCurrent, {"webPassword"})}

\* The configuration was just (re)loaded: nothing but loadConfig has written it.
JustLoaded == cfPc = "serving" /\ cfReq.op \in {"none", "reload"}

\* C22: a setting present both in config.json and in an environment variable
\* has, in the configuration getConfig returns after loading, the environment
\* variable's value.
C22_EnvOverridesFile ==
  JustLoaded =>
    \A k \in EnvKeys :
      (cfFile.kind = "valid" /\ cfFile.values[k] # Absent /\ cfEnv[k] # Absent)
        => cfCurrent[k] = cfEnv[k]

(***************************************************************************)
(* utils/diagnostics.js testPort, event by event: the promise, the timer   *)
(* and the socket with its two handlers.  The handlers stay registered for *)
(* the life of the socket, so the socket is allowed to emit each of its    *)
(* events once even after destroy(); a cleared timer never fires.          *)
(***************************************************************************)
PortHosts == {NotAString, Str(<<"a">>, 0), Str(<<"7", ".", "7">>, 0), Str(<<"a", ";">>, 0)}
PortInputs == {0, 1, 80, 443, 65535, 65536}       \* parseInt(port, 10)
ErrorMessages == {"connect ECONNREFUSED", "connect EHOSTUNREACH", ""}  \* err.message

Pending == [state |-> "pending", open |-> FALSE, message |-> ""]

\* A resolve that would replace a value already delivered.
ResolveAgain(p, open, message) == [state |-> "resolved", open |-> open, message |-> message]

\* resolve(value) of the promise: settles a pending promise, and is a no-op on
\* a settled one.
Resolve(p, open, message) ==
  IF p.state = "pending" THEN [state |-> "resolved", open |-> open, message |-> message] ELSE p

\* An exception thrown inside the promise executor rejects the promise.
Reject(p, message) ==
  IF p.state = "pending" THEN [state |-> "rejected", open |-> FALSE, message |-> message] ELSE p

\* net.Socket.connect(port, host) validates its arguments synchronously.
SocketConnectThrows(p, target) == ~target.str \/ p < 0 \/ p > 65535

PortInit ==
  /\ tpHost \in PortHosts
  /\ tpPort \in PortInputs
  /\ tpPromise = Pending
  /\ tpPc = "idle"
  /\ tpTimer = "none"
  /\ tpSocket = "none"
  /\ tpLog = <<>>

PortIdle ==
  /\ tpHost = NotAString
  /\ tpPort = 0
  /\ tpPromise = Pending
  /\ tpPc = "off"
  /\ tpTimer = "none"
  /\ tpSocket = "none"
  /\ tpLog = <<>>

\* testPort(host, port) up to its return: the two guards, then the executor
\* (socket, timer, handlers, socket.connect).
TestPortCall ==
  /\ tpPc = "idle"
  /\ tpPc' = "called"
  /\ LET target == SanitizeHost(tpHost) IN
     IF target = NotAString
       THEN /\ tpPromise' = Resolve(tpPromise, FALSE, "Invalid or missing host")
            /\ UNCHANGED <<tpTimer, tpSocket>>
     ELSE IF tpPort < 1 \/ tpPort > 65535
       THEN /\ tpPromise' = Resolve(tpPromise, FALSE, "Invalid port (use 1-65535)")
            /\ UNCHANGED <<tpTimer, tpSocket>>
     ELSE /\ tpTimer' = "armed"
          /\ tpSocket' = "connecting"
          /\ tpPromise' = IF SocketConnectThrows(tpPort, target)
                            THEN Reject(tpPromise, "ERR_SOCKET_BAD_PORT")
                            ELSE tpPromise
  /\ UNCHANGED <<tpHost, tpPort, tpLog>>
  /\ UNCHANGED <<authVars, aggVars, diagVars, ctxVars, listVars, metricVars, siteVars, fallbackVars, schedVars, configVars>>

\* The timer callback: socket.destroy(), resolve({open: false, timed out}).
OnTimeout ==
  /\ tpTimer = "armed"
  /\ tpTimer' = "fired"
  /\ tpSocket' = "destroyed"
  /\ tpPromise' = Resolve(tpPromise, FALSE, "Connection timed out after 5s")
  /\ tpLog' = Append(tpLog, "timeout")
  /\ UNCHANGED <<tpHost, tpPort, tpPc>>
  /\ UNCHANGED <<authVars, aggVars, diagVars, ctxVars, listVars, metricVars, siteVars, fallbackVars, schedVars, configVars>>

\* socket.on('connect'): clearTimeout, socket.destroy(), resolve({open: true}).
OnConnect ==
  /\ tpSocket # "none"
  /\ "connect" \notin {tpLog[i] : i \in 1..Len(tpLog)}
  /\ tpTimer' = IF tpTimer = "armed" THEN "cleared" ELSE tpTimer
  /\ tpSocket' = "destroyed"
  /\ tpPromise' = Resolve(tpPromise, TRUE, "Port is open")
  /\ tpLog' = Append(tpLog, "connect")
  /\ UNCHANGED <<tpHost, tpPort, tpPc>>
  /\ UNCHANGED <<authVars, aggVars, diagVars, ctxVars, listVars, metricVars, siteVars, fallbackVars, schedVars, configVars>>

\* socket.on('error'): clearTimeout, resolve({open: false, err.message || ...}).
OnError(errMessage) ==
  /\ tpSocket # "none"
  /\ "error" \notin {tpLog[i] : i \in 1..Len(tpLog)}
  /\ tpTimer' = IF tpTimer = "armed" THEN "cleared" ELSE tpTimer
  /\ tpPromise' = Resolve(tpPromise, FALSE,
                          IF errMessage # "" THEN errMessage
                          ELSE "Connection refused or unreachable")
  /\ tpLog' = Append(tpLog, "error")
  /\ UNCHANGED <<tpHost, tpPort, tpPc, tpSocket>>
  /\ UNCHANGED <<authVars, aggVars, diagVars, ctxVars, listVars, metricVars, siteVars, fallbackVars, schedVars, configVars>>

NextPort ==
  \/ TestPortCall
  \/ OnTimeout
  \/ OnConnect
  \/ \E errMessage \in ErrorMessages : OnError(errMessage)

\* C26: testPort's promise is never rejected; it resolves open=true only if
\* the socket's connect event came before any error event and before the timer
\* fired; if an error or the timeout came first it is open=false with that
\* reason, whatever events follow; a port outside 1..65535 resolves open=false
\* and no socket is opened.
C26_FirstEventDecides ==
  /\ tpPromise.state # "rejected"
  /\ (tpPromise.state = "resolved" /\ tpPromise.open) => (tpLog # <<>> /\ tpLog[1] = "connect")
  /\ tpLog # <<>> =>
       /\ tpPromise.state = "resolved"
       /\ tpLog[1] = "connect" => (tpPromise.open /\ tpPromise.message = "Port is open")
       /\ tpLog[1] = "timeout" =>
            (~tpPromise.open /\ tpPromise.message = "Connection timed out after 5s")
       /\ tpLog[1] = "error" =>
            (~tpPromise.open
               /\ tpPromise.message \in (ErrorMessages \ {""})
                                             \cup {"Connection refused or unreachable"})
  /\ (tpPc = "called" /\ (tpPort < 1 \/ tpPort > 65535)) =>
       /\ tpSocket = "none" /\ tpTimer = "none" /\ tpLog = <<>>
       /\ tpPromise.state = "resolved" /\ ~tpPromise.open

\* C26 witness: the connect event came first and an error event followed; the
\* promise still says open.
C26_Witness ==
  /\ Len(tpLog) = 2 /\ tpLog[1] = "connect" /\ tpLog[2] = "error"
  /\ tpPromise.state = "resolved" /\ tpPromise.open

(***************************************************************************)
(* Specifications                                                          *)
(***************************************************************************)
InitAuth == AuthInit /\ AggIdle /\ DiagIdle /\ CtxIdle /\ ListIdle /\ MetricsIdle /\ SitesIdle /\ FallbackIdle /\ SchedIdle /\ ConfigIdle /\ PortIdle
SpecAuth == InitAuth /\ [][NextAuth]_vars

InitAgg == AggInit /\ AuthIdle /\ DiagIdle /\ CtxIdle /\ ListIdle /\ MetricsIdle /\ SitesIdle /\ FallbackIdle /\ SchedIdle /\ ConfigIdle /\ PortIdle
SpecAgg == InitAgg /\ [][NextAgg]_vars

InitDiag == DiagInit /\ AuthIdle /\ AggIdle /\ CtxIdle /\ ListIdle /\ MetricsIdle /\ SitesIdle /\ FallbackIdle /\ SchedIdle /\ ConfigIdle /\ PortIdle
SpecDiag == InitDiag /\ [][NextDiag]_vars

InitCtx == CtxInit /\ AuthIdle /\ AggIdle /\ DiagIdle /\ ListIdle /\ MetricsIdle /\ SitesIdle /\ FallbackIdle /\ SchedIdle /\ ConfigIdle /\ PortIdle
SpecCtx == InitCtx /\ [][NextCtx]_vars

InitList == ListInit /\ AuthIdle /\ AggIdle /\ DiagIdle /\ CtxIdle /\ MetricsIdle /\ SitesIdle /\ FallbackIdle /\ SchedIdle /\ ConfigIdle /\ PortIdle
SpecList == InitList /\ [][NextList]_vars

InitMetrics == MetricsInit /\ AuthIdle /\ AggIdle /\ DiagIdle /\ CtxIdle /\ ListIdle /\ SitesIdle /\ FallbackIdle /\ SchedIdle /\ ConfigIdle /\ PortIdle
SpecMetrics == InitMetrics /\ [][NextMetrics]_vars

InitSites == SitesInit /\ AuthIdle /\ AggIdle /\ DiagIdle /\ CtxIdle /\ ListIdle /\ MetricsIdle /\ FallbackIdle /\ SchedIdle /\ ConfigIdle /\ PortIdle
SpecSites == InitSites /\ [][NextSites]_vars

InitFallback == FallbackInit /\ AuthIdle /\ AggIdle /\ DiagIdle /\ CtxIdle /\ ListIdle /\ MetricsIdle /\ SitesIdle /\ SchedIdle /\ ConfigIdle /\ PortIdle
SpecFallback == InitFallback /\ [][NextFallback]_vars

InitSched == SchedInit /\ AuthIdle /\ AggIdle /\ DiagIdle /\ CtxIdle /\ ListIdle /\ MetricsIdle /\ SitesIdle /\ FallbackIdle /\ ConfigIdle /\ PortIdle
SpecSched == InitSched /\ [][NextSched]_vars

InitConfig == ConfigInit /\ AuthIdle /\ AggIdle /\ DiagIdle /\ CtxIdle /\ ListIdle /\ MetricsIdle /\ SitesIdle /\ FallbackIdle /\ SchedIdle /\ PortIdle

SpecConfig == InitConfig /\ [][NextConfig]_vars

InitPort == PortInit /\ AuthIdle /\ AggIdle /\ DiagIdle /\ CtxIdle /\ ListIdle /\ MetricsIdle /\ SitesIdle /\ FallbackIdle /\ SchedIdle /\ ConfigIdle

SpecPort == InitPort /\ [][NextPort]_vars

====
